---- MODULE Spec2Model ----
(***************************************************************************)
(* The RotatingKnob widget of widget/rotatingknob.go (the later, dead-zone *)
(* bisecting variant), as a state machine: the knob's fields are the       *)
(* state, every public method is one action.                               *)
(* The knob's renderer (its tick marks) and the two TicTacToe example      *)
(* programs follow, each with variables and a specification of its own.    *)
(*                                                                         *)
(* Numbers.  The widget computes in float64.  A number is modelled as an   *)
(* exact fraction <<n, d>> in lowest terms with d > 0; the IEEE specials   *)
(* the code can produce by dividing by a zero sweep are <<1, 0>> (+Inf)    *)
(* and <<0, 0>> (NaN).  Rounding is not modelled, with one exception:      *)
(* <<1, -1>> and <<-1, -1>> stand for the finite float64 values 2^1000 and *)
(* -2^1000, which absorb every number the widget adds to them or subtracts *)
(* from them (2^1000 - 360 rounds to 2^1000).  They occur only as operands *)
(* of +, - and of comparisons.                                             *)
(***************************************************************************)
EXTENDS Integers, Sequences, FiniteSets, TLC

VARIABLES
    Value,          \* RotatingKnob.Value
    Min,            \* RotatingKnob.Min
    Max,            \* RotatingKnob.Max
    Step,           \* RotatingKnob.Step
    StartAngle,     \* RotatingKnob.StartAngle
    EndAngle,       \* RotatingKnob.EndAngle
    Wrapping,       \* RotatingKnob.Wrapping
    ShowTicks,      \* RotatingKnob.ShowTicks
    TickCount,      \* RotatingKnob.TickCount
    disabled,       \* DisableableWidget.disabled
    OnChanged,      \* RotatingKnob.OnChanged: "nil", "user" or "writeData"
    OnChangeEnded,  \* RotatingKnob.OnChangeEnded: "nil" or "user"
    bound,          \* RotatingKnob.binder holds a data source
    data,           \* the value held by the bound binding.Float
    lastOp,         \* the method called last and its argument
    calls,          \* the callbacks that call invoked, in order
    stack,          \* the calls in progress, innermost last, while a call is followed
                    \* step by step through the data binding; empty between calls
    rendered,       \* the knob's rotatingKnobRenderer exists
    ticks,          \* rotatingKnobRenderer.ticks: per tick line, the angle Layout
                    \* placed it at ("unplaced" before the first Layout)
    board,          \* TicTacToe: board [9]string
    currentTurn,    \* TicTacToe: currentTurn
    gameOver,       \* TicTacToe: gameOver
    cells,          \* TicTacToe: per cell, the text shown (basic version: cells[i].Text;
                    \* accessible version: cells[i].value)
    highlighted,    \* accessible TicTacToe: the cells whose bg.FillColor is light green
    statusLabel,    \* accessible TicTacToe: the text of Game.statusLabel
    focus,          \* accessible TicTacToe: the index of the cell the canvas focuses
    gameOp,         \* TicTacToe: the handler that ran last
    program         \* which TicTacToe program runs: "none", "basic" or "accessible"

\* the renderer of the knob
rendererVars == <<rendered, ticks>>

\* the TicTacToe programs
gameVars ==
    <<board, currentTurn, gameOver, cells, highlighted, statusLabel, focus, gameOp, program>>

\* what no method of the knob touches
otherObjects == <<rendererVars, gameVars>>

vars == <<Value, Min, Max, Step, StartAngle, EndAngle, Wrapping, ShowTicks, TickCount, disabled,
          OnChanged, OnChangeEnded, bound, data, lastOp, calls, stack, rendererVars, gameVars>>

knobConfig == <<Min, Max, Step, StartAngle, EndAngle, Wrapping, ShowTicks, TickCount>>

-----------------------------------------------------------------------------
(* float64 arithmetic on exact fractions *)

Abs(n) == IF n < 0 THEN -n ELSE n

RECURSIVE GCD(_, _)
GCD(a, b) == IF b = 0 THEN a ELSE GCD(b, a % b)

NaN == <<0, 0>>
PosInf == <<1, 0>>

\* the fraction n/d (d # 0) in lowest terms with a positive denominator
Frac(n, d) ==
    IF d = 1 THEN <<n, 1>>
    ELSE LET g == GCD(Abs(n), Abs(d))
             s == IF d < 0 THEN -1 ELSE 1
         IN  <<(s * n) \div g, (s * d) \div g>>

R(n) == <<n, 1>>

IsFinite(a) == a[2] # 0

\* the finite float64 values 2^1000 and -2^1000
Huge == <<1, -1>>
NegHuge == <<-1, -1>>

IsHuge(a) == a[2] = -1

\* a + b; a huge operand absorbs the other one (the operands are never both huge)
FAdd(a, b) ==
    IF ~IsFinite(a) \/ ~IsFinite(b) THEN NaN
    ELSE IF IsHuge(a) THEN a
    ELSE IF IsHuge(b) THEN b
    ELSE Frac(a[1] * b[2] + b[1] * a[2], a[2] * b[2])

\* a - b; a huge operand absorbs the other one (the operands are never both huge)
FSub(a, b) ==
    IF ~IsFinite(a) \/ ~IsFinite(b) THEN NaN
    ELSE IF IsHuge(a) THEN a
    ELSE IF IsHuge(b) THEN <<-b[1], -1>>
    ELSE Frac(a[1] * b[2] - b[1] * a[2], a[2] * b[2])

FMul(a, b) ==
    IF ~IsFinite(a) \/ ~IsFinite(b) THEN NaN
    ELSE Frac(a[1] * b[1], a[2] * b[2])

\* x / 0 is +Inf for x > 0 and NaN for x = 0 (the operands here are never negative
\* when the divisor is zero)
FDiv(a, b) ==
    IF ~IsFinite(a) \/ ~IsFinite(b) THEN NaN
    ELSE IF b[1] = 0 THEN (IF a[1] > 0 THEN PosInf ELSE NaN)
    ELSE Frac(a[1] * b[2], a[2] * b[1])

\* Go's <, >, <=, >= and ==: every comparison with NaN is false
FLt(a, b) ==
    /\ a # NaN /\ b # NaN
    /\ IF IsHuge(a) /\ IsHuge(b) THEN a[1] < b[1]
       ELSE IF IsHuge(a) THEN a = NegHuge \/ b = PosInf
       ELSE IF IsHuge(b) THEN b = Huge /\ IsFinite(a)
       ELSE IF IsFinite(a) /\ IsFinite(b) THEN a[1] * b[2] < b[1] * a[2]
       ELSE IsFinite(a) /\ b = PosInf

FGt(a, b) == FLt(b, a)

FEq(a, b) == a # NaN /\ b # NaN /\ a = b

FLe(a, b) == FLt(a, b) \/ FEq(a, b)

FGe(a, b) == FLe(b, a)

\* math.Mod(x, 1.0) for x > 1: the fractional part; Mod(+Inf, 1) is NaN
FMod1(a) ==
    IF ~IsFinite(a) THEN NaN
    ELSE Frac(a[1] % a[2], a[2])

-----------------------------------------------------------------------------
(* bounds and input sets *)

\* how many whole ranges beyond [Min, Max] the far SetValue / data-source inputs reach
Overshoot == 1

\* the range of the knob, as NewRotatingKnob(0, 100) of the tests constructs it
TestMin == 0
TestMax == 100

\* the (min, max) pairs the knob is constructed with
Ranges == {<<R(TestMin), R(TestMax)>>}

\* SetValue arguments for a knob over [lo, hi]: every tenth of the range, and for
\* j = 0..Overshoot the points a tenth below lo - j*range, a tenth above hi + j*range
\* and half a range above hi + j*range (-10, 110 and 150 for [0, 100])
InputValues(lo, hi) ==
    LET range == FSub(hi, lo)
        tenth == FDiv(range, R(10))
    IN  {FAdd(lo, FMul(R(i), tenth)) : i \in 0..10}
          \cup {FSub(FSub(lo, FMul(R(j), range)), tenth) : j \in 0..Overshoot}
          \cup {FAdd(FAdd(hi, FMul(R(j), range)), tenth) : j \in 0..Overshoot}
          \cup {FAdd(FAdd(hi, FMul(R(j), range)), FDiv(range, R(2))) : j \in 0..Overshoot}

\* the widget's size after knob.Resize(fyne.NewSize(100, 100))
Width == 100
Height == 100

\* pointer positions of drag and tap events: the centre of the widget, the midpoints
\* of its top and bottom edges and its two bottom corners
Positions ==
    {<<Width \div 2, Height \div 2>>, <<Width \div 2, 0>>, <<Width \div 2, Height>>,
     <<0, Height>>, <<Width, Height>>}

\* the keys TypedKey is called with; "Space" stands for every key it does not handle
Keys == {"Up", "Right", "Down", "Left", "PageUp", "PageDown", "Home", "End", "Space"}

\* the vertical scroll deltas
ScrollDYs == {-1, 0, 1}

\* the values assigned to knob.Step: 0 (use 1% of the range) and 10
StepChoices == {R(0), R(10)}

\* the (StartAngle, EndAngle) pairs assigned to the knob: the default, and the
\* half circle of TestRotatingKnob_UpdateValueFromAngle
AngleChoices == {<<R(-135), R(135)>>, <<R(0), R(180)>>}

-----------------------------------------------------------------------------
(* RotatingKnob: the pure parts *)

\* the wrapping branch of SetValue: for value < k.Min { value += valueRange }
RECURSIVE wrapUp(_, _, _)
wrapUp(value, lo, valueRange) ==
    IF FLt(value, lo) THEN wrapUp(FAdd(value, valueRange), lo, valueRange) ELSE value

\* the wrapping branch of SetValue: for value > k.Max { value -= valueRange }
RECURSIVE wrapDown(_, _, _)
wrapDown(value, hi, valueRange) ==
    IF FGt(value, hi) THEN wrapDown(FSub(value, valueRange), hi, valueRange) ELSE value

\* a SetValue that does not clamp at Min
clampUpperOnly(value) ==
    IF ~Wrapping
    THEN IF FGt(value, Max) THEN Max ELSE value
    ELSE wrapDown(wrapUp(value, Min, FSub(Max, Min)), Max, FSub(Max, Min))

\* a SetValue that does not clamp at Max
clampLowerOnly(value) ==
    IF ~Wrapping
    THEN IF FLt(value, Min) THEN Min ELSE value
    ELSE wrapDown(wrapUp(value, Min, FSub(Max, Min)), Max, FSub(Max, Min))

\* a SetValue that wraps with `if` in place of `for`: one range at most
wrapOnce(value) ==
    IF ~Wrapping
    THEN LET v1 == IF FLt(value, Min) THEN Min ELSE value
         IN  IF FGt(v1, Max) THEN Max ELSE v1
    ELSE LET v1 == IF FLt(value, Min) THEN FAdd(value, FSub(Max, Min)) ELSE value
         IN  IF FGt(v1, Max) THEN FSub(v1, FSub(Max, Min)) ELSE v1

\* a SetValue that wraps into the half-open [Min, Max): value >= k.Max wraps down
wrapHalfOpen(value) ==
    IF ~Wrapping
    THEN LET v1 == IF FLt(value, Min) THEN Min ELSE value
         IN  IF FGt(v1, Max) THEN Max ELSE v1
    ELSE LET v1 == wrapDown(wrapUp(value, Min, FSub(Max, Min)), Max, FSub(Max, Min))
         IN  IF FGe(v1, Max) THEN FSub(v1, FSub(Max, Min)) ELSE v1

\* SetValue, first half: the value clamped into [Min, Max], or wrapped into it
clampOrWrap(value) ==
    IF ~Wrapping
    THEN LET v1 == IF FLt(value, Min) THEN Min ELSE value
         IN  IF FGt(v1, Max) THEN Max ELSE v1
    ELSE wrapDown(wrapUp(value, Min, FSub(Max, Min)), Max, FSub(Max, Min))

\* one invocation of a callback, with its argument
Call(name, v) == [name |-> name, value |-> v]

\* k.OnChanged(k.Value), guarded by k.OnChanged != nil
fireOnChanged(v) == IF OnChanged # "nil" THEN <<Call("OnChanged", v)>> ELSE <<>>

\* k.OnChangeEnded(k.Value), guarded by k.OnChangeEnded != nil
fireOnChangeEnded(v) == IF OnChangeEnded # "nil" THEN <<Call("OnChangeEnded", v)>> ELSE <<>>

\* a writeData that leaves the source alone
writeDataNowhere(dat, v) == dat

\* writeData, reached through the OnChanged closure that Bind installs: the source
\* takes the knob's value (its own notification calls SetValue with the value the
\* knob already holds)
writeData(dat, v) == IF OnChanged = "writeData" /\ bound THEN v ELSE dat

\* a SetValue without the `if k.Value == value { return }` check
SetValueAlwaysNotifies(cur, dat, value) ==
    LET nv == clampOrWrap(value)
    IN  [Value |-> nv, fired |-> fireOnChanged(nv), data |-> writeData(dat, nv)]

\* a SetValue that compares k.Value with its argument before clamping it
SetValueComparesArgument(cur, dat, value) ==
    LET nv == clampOrWrap(value)
    IN  IF FEq(cur, value)
        THEN [Value |-> cur, fired |-> <<>>, data |-> dat]
        ELSE [Value |-> nv, fired |-> fireOnChanged(nv), data |-> writeData(dat, nv)]

\* SetValue on a knob holding cur, with dat in the data source: the knob's value, the
\* callbacks invoked and the data source after k.SetValue(value)
SetValueFrom(cur, dat, value) ==
    LET nv == clampOrWrap(value)
    IN  IF FEq(cur, nv)
        THEN [Value |-> cur, fired |-> <<>>, data |-> dat]
        ELSE [Value |-> nv, fired |-> fireOnChanged(nv), data |-> writeData(dat, nv)]

\* k.SetValue(value) in the current state
SetValueResult(value) == SetValueFrom(Value, data, value)

\* an angle measured counter-clockwise from up: math.Atan2(-dx, -dy)
getAngleCounterClockwise(pos) ==
    LET dx == pos[1] - Width \div 2
        dy == pos[2] - Height \div 2
        degrees ==
            CASE dx = 0 /\ dy < 0 -> 0
              [] dx = 0 /\ dy >= 0 -> 180
              [] dx > 0 /\ dy = 0 -> -90
              [] dx < 0 /\ dy = 0 -> 90
              [] dx > 0 /\ dy = 0 - dx -> -45
              [] dx > 0 /\ dy = dx -> -135
              [] dx < 0 /\ dy = 0 - dx -> 135
              [] dx < 0 /\ dy = dx -> 45
    IN  IF degrees < 0 THEN R(degrees + 360) ELSE R(degrees)

\* getAngleFromPoint: math.Atan2(dx, -dy) in degrees, plus 360 when negative, for the
\* offsets whose angle is a multiple of 45 degrees.  dy = 0 makes -dy the float -0,
\* and Atan2(+0, -0) is Pi: the centre gives 180.
getAngleFromPoint(pos) ==
    LET dx == pos[1] - Width \div 2
        dy == pos[2] - Height \div 2
        degrees ==
            CASE dx = 0 /\ dy < 0 -> 0
              [] dx = 0 /\ dy >= 0 -> 180
              [] dx > 0 /\ dy = 0 -> 90
              [] dx < 0 /\ dy = 0 -> -90
              [] dx > 0 /\ dy = 0 - dx -> 45
              [] dx > 0 /\ dy = dx -> 135
              [] dx < 0 /\ dy = 0 - dx -> -135
              [] dx < 0 /\ dy = dx -> -45
    IN  IF degrees < 0 THEN R(degrees + 360) ELSE R(degrees)

\* for a < 0 { a += 360 }
RECURSIVE normUp(_)
normUp(a) == IF FLt(a, R(0)) THEN normUp(FAdd(a, R(360))) ELSE a

\* for a >= 360 { a -= 360 }
RECURSIVE normDown(_)
normDown(a) == IF FGe(a, R(360)) THEN normDown(FSub(a, R(360))) ELSE a

\* updateValueFromAngle: the start or end angle normalized into [0, 360)
normalizeAngle(a) == normDown(normUp(a))

\* updateValueFromAngle: sweep := endAngle - startAngle, plus 360 when negative
sweepOf(startAngle, endAngle) ==
    LET sweep == FSub(normalizeAngle(endAngle), normalizeAngle(startAngle))
    IN  IF FLt(sweep, R(0)) THEN FAdd(sweep, R(360)) ELSE sweep

\* updateValueFromAngle: the angle relative to the start, plus 360 when negative
relativeOf(angle, startAngle) ==
    LET relativeAngle == FSub(angle, normalizeAngle(startAngle))
    IN  IF FLt(relativeAngle, R(0)) THEN FAdd(relativeAngle, R(360)) ELSE relativeAngle

\* a dead zone whose midpoint snaps to the end: relativeAngle <= sweep+deadZone/2
deadZoneMidpointToMax(relativeAngle, sweep) ==
    IF ~Wrapping /\ FGt(relativeAngle, sweep)
    THEN LET deadZone == FSub(R(360), sweep)
         IN  IF FLe(relativeAngle, FAdd(sweep, FDiv(deadZone, R(2))))
             THEN sweep
             ELSE R(0)
    ELSE relativeAngle

\* a dead zone that is clamped on a wrapping knob too
deadZoneIgnoresWrapping(relativeAngle, sweep) ==
    IF FGt(relativeAngle, sweep)
    THEN LET deadZone == FSub(R(360), sweep)
         IN  IF FLt(relativeAngle, FAdd(sweep, FDiv(deadZone, R(2))))
             THEN sweep
             ELSE R(0)
    ELSE relativeAngle

\* a dead zone whose first half snaps to the start and whose second half to the end
deadZoneSwapped(relativeAngle, sweep) ==
    IF ~Wrapping /\ FGt(relativeAngle, sweep)
    THEN LET deadZone == FSub(R(360), sweep)
         IN  IF FLt(relativeAngle, FAdd(sweep, FDiv(deadZone, R(2))))
             THEN R(0)
             ELSE sweep
    ELSE relativeAngle

\* updateValueFromAngle: the dead zone of a non-wrapping knob, bisected
deadZoneClamp(relativeAngle, sweep) ==
    IF ~Wrapping /\ FGt(relativeAngle, sweep)
    THEN LET deadZone == FSub(R(360), sweep)
         IN  IF FLt(relativeAngle, FAdd(sweep, FDiv(deadZone, R(2))))
             THEN sweep
             ELSE R(0)
    ELSE relativeAngle

\* a mapping that takes the ratio of the full circle, not of the sweep
valueFromCircleFraction(angle) ==
    LET sweep == sweepOf(StartAngle, EndAngle)
        relativeAngle == deadZoneClamp(relativeOf(angle, StartAngle), sweep)
        ratio0 == FDiv(relativeAngle, R(360))
        ratio == IF FGt(ratio0, R(1)) THEN FMod1(ratio0) ELSE ratio0
    IN  FAdd(Min, FMul(ratio, FSub(Max, Min)))

\* updateValueFromAngle: the value handed to SetValue
valueFromAngle(angle) ==
    LET sweep == sweepOf(StartAngle, EndAngle)
        relativeAngle == deadZoneClamp(relativeOf(angle, StartAngle), sweep)
        ratio0 == FDiv(relativeAngle, sweep)
        ratio == IF FGt(ratio0, R(1)) THEN FMod1(ratio0) ELSE ratio0
    IN  FAdd(Min, FMul(ratio, FSub(Max, Min)))

\* updateValueFromAngle
updateValueFromAngle(angle) == SetValueResult(valueFromAngle(angle))

\* a step that falls back to 10% of the range
stepOrTenth == IF FEq(Step, R(0)) THEN FDiv(FSub(Max, Min), R(10)) ELSE Step

\* step := k.Step; if step == 0 { step = (k.Max - k.Min) / 100 }
effectiveStep == IF FEq(Step, R(0)) THEN FDiv(FSub(Max, Min), R(100)) ELSE Step

\* TypedKey's switch: the argument of the SetValue call a handled key makes
keyTarget(key) ==
    CASE key \in {"Up", "Right"} -> FAdd(Value, effectiveStep)
      [] key \in {"Down", "Left"} -> FSub(Value, effectiveStep)
      [] key = "PageUp" -> FAdd(Value, FMul(effectiveStep, R(10)))
      [] key = "PageDown" -> FSub(Value, FMul(effectiveStep, R(10)))
      [] key = "Home" -> Min
      [] key = "End" -> Max

HandledKeys == {"Up", "Right", "Down", "Left", "PageUp", "PageDown", "Home", "End"}

-----------------------------------------------------------------------------
(* RotatingKnob: construction and methods *)

\* no position: the call has none; a disabled knob did not read it
NoPos == <<-1, -1>>
Unread == <<-2, -2>>

\* how often the callback `name` was invoked in the sequence of calls cs
Count(cs, name) == Cardinality({i \in DOMAIN cs : cs[i].name = name})

\* The record of a call: the method, the argument of a SetValue or a source Set, the
\* position of a drag or tap that the handler read (a disabled knob returns before
\* reading it), whether the call repeats the call before it (same method, same
\* argument), and how often that call before it invoked OnChanged.
Op(kind, val, pos) ==
    LET again == kind \in {"SetValue", "Dragged", "Tapped"} /\ pos # Unread
                 /\ lastOp.kind = kind /\ lastOp.val = val /\ lastOp.pos = pos
    IN  [kind |-> kind, val |-> val, pos |-> pos, again |-> again,
         prevFired |-> IF again THEN Count(calls, "OnChanged") ELSE 0]

\* the record of a call that repeats nothing
FirstOp(kind) ==
    [kind |-> kind, val |-> R(0), pos |-> NoPos, again |-> FALSE, prevFired |-> 0]

\* a constructor that starts the knob at min
newKnobAtMin(lo, hi) ==
    /\ Value = lo
    /\ Min = lo
    /\ Max = hi
    /\ Step = FDiv(FSub(hi, lo), R(100))
    /\ StartAngle = R(-135)
    /\ EndAngle = R(135)
    /\ Wrapping = FALSE
    /\ ShowTicks = TRUE
    /\ TickCount = 11
    /\ disabled = FALSE
    /\ OnChanged = "nil"
    /\ OnChangeEnded = "nil"
    /\ bound = FALSE
    /\ data = R(0)

\* NewRotatingKnob(min, max)
NewRotatingKnob(lo, hi) ==
    /\ Value = FDiv(FAdd(lo, hi), R(2))
    /\ Min = lo
    /\ Max = hi
    /\ Step = FDiv(FSub(hi, lo), R(100))
    /\ StartAngle = R(-135)
    /\ EndAngle = R(135)
    /\ Wrapping = FALSE
    /\ ShowTicks = TRUE
    /\ TickCount = 11
    /\ disabled = FALSE
    /\ OnChanged = "nil"
    /\ OnChangeEnded = "nil"
    /\ bound = FALSE
    /\ data = R(0)

\* the indices of the nine cells of the TicTacToe grid, row by row
Cells == 0..8

\* board = [9]string{}
EmptyBoard == [i \in Cells |-> ""]

\* no renderer has been created for the knob
NoRenderer == rendered = FALSE /\ ticks = <<>>

\* no TicTacToe program is running
NoGame ==
    /\ board = EmptyBoard
    /\ currentTurn = "X"
    /\ gameOver = FALSE
    /\ cells = EmptyBoard
    /\ highlighted = {}
    /\ statusLabel = ""
    /\ focus = -1
    /\ gameOp = [kind |-> "none"]
    /\ program = "none"

Init ==
    /\ \E r \in Ranges : NewRotatingKnob(r[1], r[2])
    /\ lastOp = FirstOp("New")
    /\ calls = <<>>
    /\ stack = <<>>
    /\ NoRenderer /\ NoGame

\* the knob after a call that ran SetValue with result r and then invoked `ended`
Apply(r, ended) ==
    /\ Value' = r.Value
    /\ data' = r.data
    /\ calls' = r.fired \o ended

\* knob.SetValue(v)
SetValue(v) ==
    /\ Apply(SetValueResult(v), <<>>)
    /\ lastOp' = Op("SetValue", v, NoPos)
    /\ UNCHANGED <<stack, otherObjects>>
    /\ UNCHANGED <<knobConfig, disabled, OnChanged, OnChangeEnded, bound>>

\* a Dragged that ends the change as Tapped does
DraggedEndsChange(pos) ==
    /\ IF disabled
       THEN UNCHANGED <<Value, data>> /\ calls' = <<>>
       ELSE LET r == updateValueFromAngle(getAngleFromPoint(pos))
            IN  Apply(r, fireOnChangeEnded(r.Value))
    /\ lastOp' = Op("Dragged", R(0), IF disabled THEN Unread ELSE pos)
    /\ UNCHANGED <<stack, otherObjects>>
    /\ UNCHANGED <<knobConfig, disabled, OnChanged, OnChangeEnded, bound>>

\* a Dragged without the `if k.Disabled() { return }` check
DraggedWhileDisabled(pos) ==
    /\ Apply(updateValueFromAngle(getAngleFromPoint(pos)), <<>>)
    /\ lastOp' = Op("Dragged", R(0), IF disabled THEN Unread ELSE pos)
    /\ UNCHANGED <<stack, otherObjects>>
    /\ UNCHANGED <<knobConfig, disabled, OnChanged, OnChangeEnded, bound>>

\* knob.Dragged(e) with e.Position = pos
Dragged(pos) ==
    /\ IF disabled
       THEN UNCHANGED <<Value, data>> /\ calls' = <<>>
       ELSE Apply(updateValueFromAngle(getAngleFromPoint(pos)), <<>>)
    /\ lastOp' = Op("Dragged", R(0), IF disabled THEN Unread ELSE pos)
    /\ UNCHANGED <<stack, otherObjects>>
    /\ UNCHANGED <<knobConfig, disabled, OnChanged, OnChangeEnded, bound>>

\* knob.DragEnd()
DragEnd ==
    /\ calls' = fireOnChangeEnded(Value)
    /\ lastOp' = FirstOp("DragEnd")
    /\ UNCHANGED <<stack, otherObjects>>
    /\ UNCHANGED <<Value, data, knobConfig, disabled, OnChanged, OnChangeEnded, bound>>

\* knob.Tapped(e) with e.Position = pos
Tapped(pos) ==
    /\ IF disabled
       THEN UNCHANGED <<Value, data>> /\ calls' = <<>>
       ELSE LET r == updateValueFromAngle(getAngleFromPoint(pos))
            IN  Apply(r, fireOnChangeEnded(r.Value))
    /\ lastOp' = Op("Tapped", R(0), IF disabled THEN Unread ELSE pos)
    /\ UNCHANGED <<stack, otherObjects>>
    /\ UNCHANGED <<knobConfig, disabled, OnChanged, OnChangeEnded, bound>>

\* a TypedKey that invokes OnChangeEnded before it calls SetValue
TypedKeyEndsFirst(key) ==
    /\ IF disabled \/ key \notin HandledKeys
       THEN UNCHANGED <<Value, data>> /\ calls' = <<>>
       ELSE LET r == SetValueResult(keyTarget(key))
            IN  /\ Value' = r.Value
                /\ data' = r.data
                /\ calls' = fireOnChangeEnded(Value) \o r.fired
    /\ lastOp' = FirstOp("TypedKey")
    /\ UNCHANGED <<stack, otherObjects>>
    /\ UNCHANGED <<knobConfig, disabled, OnChanged, OnChangeEnded, bound>>

\* knob.TypedKey(key)
TypedKey(key) ==
    /\ IF disabled \/ key \notin HandledKeys
       THEN UNCHANGED <<Value, data>> /\ calls' = <<>>
       ELSE LET r == SetValueResult(keyTarget(key))
            IN  Apply(r, fireOnChangeEnded(r.Value))
    /\ lastOp' = FirstOp("TypedKey")
    /\ UNCHANGED <<stack, otherObjects>>
    /\ UNCHANGED <<knobConfig, disabled, OnChanged, OnChangeEnded, bound>>

\* a Scrolled that invokes OnChangeEnded only when OnChanged was invoked
ScrolledEndsOnChange(dy) ==
    /\ IF disabled
       THEN UNCHANGED <<Value, data>> /\ calls' = <<>>
       ELSE LET r == IF dy > 0 THEN SetValueResult(FAdd(Value, effectiveStep))
                     ELSE IF dy < 0 THEN SetValueResult(FSub(Value, effectiveStep))
                     ELSE [Value |-> Value, fired |-> <<>>, data |-> data]
            IN  Apply(r, IF r.fired = <<>> THEN <<>> ELSE fireOnChangeEnded(r.Value))
    /\ lastOp' = FirstOp("Scrolled")
    /\ UNCHANGED <<stack, otherObjects>>
    /\ UNCHANGED <<knobConfig, disabled, OnChanged, OnChangeEnded, bound>>

\* knob.Scrolled(e) with e.Scrolled.DY = dy
Scrolled(dy) ==
    /\ IF disabled
       THEN UNCHANGED <<Value, data>> /\ calls' = <<>>
       ELSE LET r == IF dy > 0 THEN SetValueResult(FAdd(Value, effectiveStep))
                     ELSE IF dy < 0 THEN SetValueResult(FSub(Value, effectiveStep))
                     ELSE [Value |-> Value, fired |-> <<>>, data |-> data]
            IN  Apply(r, fireOnChangeEnded(r.Value))
    /\ lastOp' = FirstOp("Scrolled")
    /\ UNCHANGED <<stack, otherObjects>>
    /\ UNCHANGED <<knobConfig, disabled, OnChanged, OnChangeEnded, bound>>

\* knob.Disable()
Disable ==
    /\ disabled' = TRUE
    /\ lastOp' = FirstOp("Disable")
    /\ UNCHANGED <<stack, otherObjects>>
    /\ calls' = <<>>
    /\ UNCHANGED <<Value, data, knobConfig, OnChanged, OnChangeEnded, bound>>

\* knob.Enable()
Enable ==
    /\ disabled' = FALSE
    /\ lastOp' = FirstOp("Enable")
    /\ UNCHANGED <<stack, otherObjects>>
    /\ calls' = <<>>
    /\ UNCHANGED <<Value, data, knobConfig, OnChanged, OnChangeEnded, bound>>

\* the caller configures the knob's public fields before it uses the knob
Configuring == lastOp.kind \in {"New", "Assign"}

\* The configurations the model covers: a caller changes the step or the geometry
\* (angles, wrapping) of a new knob, not both.
DefaultStep == FEq(Step, FDiv(FSub(Max, Min), R(100)))

DefaultGeometry == StartAngle = R(-135) /\ EndAngle = R(135) /\ ~Wrapping

\* knob.Step = s
AssignStep(s) ==
    /\ Configuring
    /\ DefaultGeometry
    /\ Step' = s
    /\ lastOp' = FirstOp("Assign")
    /\ UNCHANGED <<stack, otherObjects>>
    /\ calls' = <<>>
    /\ UNCHANGED <<Value, data, Min, Max, StartAngle, EndAngle, Wrapping, ShowTicks,
                   TickCount, disabled,
                   OnChanged, OnChangeEnded, bound>>

\* knob.StartAngle = a[1]; knob.EndAngle = a[2]
AssignAngles(a) ==
    /\ Configuring
    /\ DefaultStep
    /\ StartAngle' = a[1]
    /\ EndAngle' = a[2]
    /\ lastOp' = FirstOp("Assign")
    /\ UNCHANGED <<stack, otherObjects>>
    /\ calls' = <<>>
    /\ UNCHANGED <<Value, data, Min, Max, Step, Wrapping, ShowTicks, TickCount, disabled,
                   OnChanged, OnChangeEnded, bound>>

\* knob.Wrapping = b
AssignWrapping(b) ==
    /\ Configuring
    /\ DefaultStep
    /\ Wrapping' = b
    /\ lastOp' = FirstOp("Assign")
    /\ UNCHANGED <<stack, otherObjects>>
    /\ calls' = <<>>
    /\ UNCHANGED <<Value, data, Min, Max, Step, StartAngle, EndAngle, ShowTicks,
                   TickCount, disabled,
                   OnChanged, OnChangeEnded, bound>>

\* knob.OnChanged = func(value float64) {...}; knob.OnChangeEnded = func(...) {...}
AssignCallbacks ==
    /\ Configuring
    /\ ~bound
    /\ OnChanged' = "user"
    /\ OnChangeEnded' = "user"
    /\ lastOp' = FirstOp("Assign")
    /\ UNCHANGED <<stack, otherObjects>>
    /\ calls' = <<>>
    /\ UNCHANGED <<Value, data, knobConfig, disabled, bound>>

\* knob.Bind(source), the source holding w, as the last step of configuring a knob
\* that has no callbacks of its own:
\* the binder calls updateFromData with the source's value, then Bind replaces
\* OnChanged by the closure that calls writeData
Bind(w) ==
    /\ Configuring
    /\ ~bound
    /\ OnChangeEnded = "nil"
    /\ LET r == SetValueFrom(Value, w, w)
       IN  /\ Value' = r.Value
           /\ calls' = r.fired
           /\ data' = w
    /\ bound' = TRUE
    /\ OnChanged' = "writeData"
    /\ lastOp' = Op("Bind", w, NoPos)
    /\ UNCHANGED <<stack, otherObjects>>
    /\ UNCHANGED <<knobConfig, disabled, OnChangeEnded>>

\* an Unbind that leaves the OnChanged closure of Bind in place
unbindKeepsOnChanged ==
    /\ bound
    /\ bound' = FALSE
    /\ UNCHANGED <<Value, knobConfig, disabled, OnChanged, OnChangeEnded>>

\* the body of Unbind: k.OnChanged = nil; k.binder.Unbind()
UnbindKnob ==
    /\ bound
    /\ bound' = FALSE
    /\ OnChanged' = "nil"
    /\ UNCHANGED <<Value, knobConfig, disabled, OnChangeEnded>>

\* knob.Unbind(); the model follows the source only while it is bound
Unbind ==
    /\ UnbindKnob
    /\ data' = R(0)
    /\ lastOp' = FirstOp("Unbind")
    /\ UNCHANGED <<stack, otherObjects>>
    /\ calls' = <<>>

\* source.Set(w) on the bound source: a changed value reaches updateFromData, which
\* calls SetValue with it
DataSet(w) ==
    /\ bound
    /\ IF FEq(data, w)
       THEN UNCHANGED <<Value, data>> /\ calls' = <<>>
       ELSE Apply(SetValueFrom(Value, w, w), <<>>)
    /\ lastOp' = Op("DataSet", w, NoPos)
    /\ UNCHANGED <<stack, otherObjects>>
    /\ UNCHANGED <<knobConfig, disabled, OnChanged, OnChangeEnded, bound>>

Next ==
    \/ \E v \in InputValues(Min, Max) : SetValue(v)
    \/ \E pos \in Positions : Dragged(pos)
    \/ DragEnd
    \/ \E pos \in Positions : Tapped(pos)
    \/ \E key \in Keys : TypedKey(key)
    \/ \E dy \in ScrollDYs : Scrolled(dy)
    \/ Disable
    \/ Enable
    \/ \E s \in StepChoices : AssignStep(s)
    \/ \E a \in AngleChoices : AssignAngles(a)
    \/ \E b \in BOOLEAN : AssignWrapping(b)
    \/ AssignCallbacks
    \/ \E w \in InputValues(Min, Max) : Bind(w)
    \/ Unbind
    \/ \E w \in InputValues(Min, Max) : DataSet(w)

Spec == Init /\ [][Next]_vars

-----------------------------------------------------------------------------
(* Properties of SetValue *)

\* the callbacks named `name` among the calls cs
Fired(cs, name) == Count(cs, name) > 0

\* a and b differ by a whole multiple of m
Congruent(a, b, m) == FDiv(FSub(a, b), m)[2] = 1

\* C1: on a non-wrapping knob, SetValue(v) with v < Min stores exactly Min, and
\* SetValue(v) with v > Max stores exactly Max.
C1_ClampStoresBound ==
    (lastOp.kind = "SetValue" /\ ~Wrapping) =>
        /\ FLt(lastOp.val, Min) => Value = Min
        /\ FGt(lastOp.val, Max) => Value = Max

\* a SetValue below Min on a non-wrapping knob has stored Min
C1_Witness ==
    /\ lastOp.kind = "SetValue"
    /\ ~Wrapping
    /\ FLt(lastOp.val, Min)
    /\ Value = Min

\* C2: on a wrapping knob, SetValue(v) stores a value inside [Min, Max] that differs
\* from v by a whole multiple of (Max - Min).
C2_WrapCongruent ==
    (lastOp.kind = "SetValue" /\ Wrapping) =>
        /\ FLe(Min, Value)
        /\ FLe(Value, Max)
        /\ Congruent(Value, lastOp.val, FSub(Max, Min))

\* a SetValue more than one range above Max on a wrapping knob has stored a value
\* strictly inside the range
C2_Witness ==
    /\ lastOp.kind = "SetValue"
    /\ Wrapping
    /\ FGt(lastOp.val, FAdd(Max, FSub(Max, Min)))
    /\ FLt(Min, Value)
    /\ FLt(Value, Max)

C4_InRangeStoredExactly ==
    (lastOp.kind = "SetValue" /\ FLe(Min, lastOp.val) /\ FLe(lastOp.val, Max)) =>
        Value = lastOp.val

\* SetValue(Max) on a wrapping knob moved the value to Max
C4_Witness ==
    /\ lastOp.kind = "SetValue"
    /\ Wrapping
    /\ lastOp.val = Max
    /\ Value = Max
    /\ calls = <<Call("OnChanged", Max)>>

\* the calls that reach SetValue
SetValuePaths == {"SetValue", "Dragged", "Tapped", "TypedKey", "Scrolled", "DataSet"}

\* C5: on every path that reaches SetValue, a result equal to the stored Value
\* changes nothing and invokes no OnChanged; otherwise Value is updated and OnChanged
\* is invoked exactly once, before anything else, with the new Value.  A drag
\* repeated at the same position changes nothing and invokes nothing.
C5_ChangeNotifiesOnce ==
    [][lastOp'.kind \in SetValuePaths =>
        /\ Count(calls', "OnChanged") =
               IF Value' # Value /\ OnChanged # "nil" THEN 1 ELSE 0
        /\ Fired(calls', "OnChanged") => calls'[1] = Call("OnChanged", Value')
        /\ (lastOp'.kind = "Dragged" /\ lastOp'.again) =>
               Value' = Value /\ calls' = <<>>]_vars

\* a drag that notified was repeated at the same position and notified nothing
C5_Witness ==
    /\ lastOp.kind = "Dragged"
    /\ lastOp.again
    /\ lastOp.prevFired = 1
    /\ calls = <<>>

\* C6 as stated: two SetValue(v) calls in a row invoke OnChanged exactly once in
\* total.
C6_ExactlyOnceInTotal ==
    (lastOp.kind = "SetValue" /\ lastOp.again /\ OnChanged # "nil") =>
        lastOp.prevFired + Count(calls, "OnChanged") = 1

\* C6: two SetValue(v) calls in a row invoke OnChanged at most once in total, and
\* the second call invokes nothing.
C6_AtMostOnceInTotal ==
    (lastOp.kind = "SetValue" /\ lastOp.again) =>
        /\ calls = <<>>
        /\ lastOp.prevFired <= 1

\* SetValue(v) was called twice on a knob with an OnChanged handler and neither call
\* invoked it
C6_Witness ==
    /\ lastOp.kind = "SetValue"
    /\ lastOp.again
    /\ OnChanged = "user"
    /\ lastOp.prevFired = 0
    /\ calls = <<>>

\* C7: SetValue and Dragged never invoke OnChangeEnded; DragEnd invokes it exactly
\* once, with the current Value.
C7_OnlyDragEndEnds ==
    /\ lastOp.kind \in {"SetValue", "Dragged"} => ~Fired(calls, "OnChangeEnded")
    /\ (lastOp.kind = "DragEnd" /\ OnChangeEnded # "nil") =>
           calls = <<Call("OnChangeEnded", Value)>>

\* DragEnd invoked OnChangeEnded with the value away from the constructor's midpoint
C7_Witness ==
    /\ lastOp.kind = "DragEnd"
    /\ Value = Max
    /\ calls = <<Call("OnChangeEnded", Max)>>

-----------------------------------------------------------------------------
(* Properties of the keyboard and of disabling *)

\* the step of the claim: Step, or (Max - Min) / 100 when Step is 0
C8_Step == IF Step = R(0) THEN FDiv(FSub(Max, Min), R(100)) ELSE Step

\* the signed change a key asks for
C8_Delta(key) ==
    CASE key \in {"Up", "Right"} -> C8_Step
      [] key \in {"Down", "Left"} -> FSub(R(0), C8_Step)
      [] key = "PageUp" -> FMul(R(10), C8_Step)
      [] key = "PageDown" -> FSub(R(0), FMul(R(10), C8_Step))

\* the value a key leaves: Min for Home, Max for End, otherwise Value plus the key's
\* change, saturated at the bounds of a non-wrapping knob and wrapped on a wrapping
\* one
C8_Expected(key) ==
    CASE key = "Home" -> Min
      [] key = "End" -> Max
      [] OTHER ->
            LET target == FAdd(Value, C8_Delta(key))
            IN  IF Wrapping THEN clampOrWrap(target)
                ELSE IF FGt(target, Max) THEN Max
                ELSE IF FLt(target, Min) THEN Min
                ELSE target

\* C8: on an enabled knob, Up and Right add s, Down and Left subtract s, PageUp adds
\* 10 s, PageDown subtracts 10 s, Home sets Min and End sets Max, where s is Step, or
\* (Max - Min) / 100 when Step is 0; a non-wrapping knob saturates at Max and Min.
C8_KeyMapping ==
    [][\A key \in HandledKeys :
          (~disabled /\ TypedKey(key)) => Value' = C8_Expected(key)]_vars

\* a key press on a non-wrapping knob with Step 0 stopped at Max: it changed nothing
\* and ended the change
C8_Witness ==
    /\ lastOp.kind = "TypedKey"
    /\ ~Wrapping
    /\ Step = R(0)
    /\ Value = Max
    /\ calls = <<Call("OnChangeEnded", Max)>>

\* C9: a key press that changes the value invokes OnChanged and then OnChangeEnded,
\* both with the new Value.
C9_KeyNotifiesThenEnds ==
    [][(lastOp'.kind = "TypedKey" /\ Value' # Value
        /\ OnChanged # "nil" /\ OnChangeEnded # "nil") =>
           calls' = <<Call("OnChanged", Value'), Call("OnChangeEnded", Value')>>]_vars

\* a key press invoked OnChanged and then OnChangeEnded with the knob's value
C9_Witness ==
    /\ lastOp.kind = "TypedKey"
    /\ calls = <<Call("OnChanged", Value), Call("OnChangeEnded", Value)>>

\* the events a disabled knob ignores
PointerAndKeyEvents == {"Dragged", "Tapped", "TypedKey", "Scrolled"}

\* C10: while the knob is disabled, Dragged, Tapped, TypedKey and Scrolled leave
\* Value unchanged and invoke no OnChanged; Enable clears the flag, and the event
\* that follows it has the effect it has on an enabled knob, OnChanged included.
C10_DisabledIgnoresEvents ==
    [][/\ (disabled /\ lastOp'.kind \in PointerAndKeyEvents) =>
              Value' = Value /\ ~Fired(calls', "OnChanged")
       /\ lastOp'.kind = "Enable" => ~disabled'
       /\ lastOp.kind = "Enable" =>
              /\ \A pos \in Positions :
                     (Dragged(pos) \/ Tapped(pos)) =>
                         Value' = updateValueFromAngle(getAngleFromPoint(pos)).Value
              /\ \A key \in HandledKeys :
                     TypedKey(key) => Value' = SetValueResult(keyTarget(key)).Value
              /\ Scrolled(1) => Value' = SetValueResult(FAdd(Value, effectiveStep)).Value
              /\ Scrolled(-1) => Value' = SetValueResult(FSub(Value, effectiveStep)).Value
              /\ (lastOp'.kind \in PointerAndKeyEvents /\ Value' # Value
                  /\ OnChanged # "nil") => Fired(calls', "OnChanged")]_vars

\* a disabled knob with an OnChanged handler was dragged and invoked nothing
C10_Witness ==
    /\ lastOp.kind = "Dragged"
    /\ disabled
    /\ OnChanged = "user"
    /\ Value # FDiv(FAdd(Min, Max), R(2))
    /\ calls = <<>>

-----------------------------------------------------------------------------
(* updateValueFromAngle called directly, as the tests of the widget package call it *)

\* the (StartAngle, EndAngle) pairs of the knobs whose angle mapping is explored: the
\* default, the half circle of TestRotatingKnob_UpdateValueFromAngle, and a three
\* quarter sweep that crosses 0 degrees
AngleConfigs == {<<R(-135), R(135)>>, <<R(0), R(180)>>, <<R(180), R(90)>>}

\* the angles handed to updateValueFromAngle: every fifth degree of [0, 360), and the
\* degrees next to the sweep's end and to the dead zone's midpoint of the default knob
TestAngles ==
    {R(5 * i) : i \in 0..71} \cup {R(134), R(136), R(179), R(181), R(224), R(226)}

\* a knob after NewRotatingKnob and the assignment of its angles, its Wrapping flag
\* and, possibly, of its OnChanged
AngleInit ==
    /\ \E r \in Ranges, a \in AngleConfigs :
          /\ Value = FDiv(FAdd(r[1], r[2]), R(2))
          /\ Min = r[1]
          /\ Max = r[2]
          /\ Step = FDiv(FSub(r[2], r[1]), R(100))
          /\ StartAngle = a[1]
          /\ EndAngle = a[2]
    /\ Wrapping \in BOOLEAN
    /\ ShowTicks = TRUE
    /\ TickCount = 11
    /\ disabled = FALSE
    /\ OnChanged \in {"nil", "user"}
    /\ OnChangeEnded = "nil"
    /\ bound = FALSE
    /\ data = R(0)
    /\ lastOp = FirstOp("New")
    /\ calls = <<>>
    /\ stack = <<>>
    /\ NoRenderer /\ NoGame

\* knob.updateValueFromAngle(angle)
UpdateValueFromAngle(angle) ==
    /\ Apply(updateValueFromAngle(angle), <<>>)
    /\ lastOp' = Op("updateValueFromAngle", angle, NoPos)
    /\ UNCHANGED <<stack, otherObjects>>
    /\ UNCHANGED <<knobConfig, disabled, OnChanged, OnChangeEnded, bound>>

AngleNext == \E angle \in TestAngles : UpdateValueFromAngle(angle)

AngleSpec == AngleInit /\ [][AngleNext]_vars

\* the knob of the concrete cases: default angles, non-wrapping, over [0, 100]
DefaultKnob ==
    /\ StartAngle = R(-135) /\ EndAngle = R(135) /\ ~Wrapping
    /\ Min = R(0) /\ Max = R(100)

\* C11 as stated: on the default knob over [0, 100], angle 200 yields Value 100 and
\* angle 340 yields Value 0.
C11_Angle200Max340Min ==
    (DefaultKnob /\ lastOp.kind = "updateValueFromAngle") =>
        /\ lastOp.val = R(200) => Value = R(100)
        /\ lastOp.val = R(340) => Value = R(0)

\* C11: on the default knob over [0, 100], angle 200 lies in the dead zone past its
\* midpoint (180) and yields Value 0; angle 340 lies inside the sweep, 115 degrees
\* after the start, and yields Value 100 * 115 / 270.
C11_Angle200Min340InSweep ==
    (DefaultKnob /\ lastOp.kind = "updateValueFromAngle") =>
        /\ lastOp.val = R(200) => Value = R(0)
        /\ lastOp.val = R(340) => Value = Frac(100 * 115, 270)

\* updateValueFromAngle(200) on the default knob has stored Min
C11_Witness ==
    /\ DefaultKnob
    /\ lastOp.kind = "updateValueFromAngle"
    /\ lastOp.val = R(200)
    /\ Value = R(0)

\* the angle of the last updateValueFromAngle relative to the start angle, in whole
\* degrees of [0, 360)
C12_Relative == (lastOp.val[1] - StartAngle[1]) % 360

\* the sweep from the start angle to the end angle, in whole degrees of [0, 360)
C12_Sweep == (EndAngle[1] - StartAngle[1]) % 360

\* C12: on a non-wrapping knob, with deadZone = 360 - sweep, an angle with
\* sweep < relative < sweep + deadZone/2 sets Value to Max, and an angle with
\* relative >= sweep + deadZone/2, the midpoint of the dead zone included, sets
\* Value to Min.
C12_DeadZoneBisected ==
    (lastOp.kind = "updateValueFromAngle" /\ ~Wrapping) =>
        /\ (C12_Sweep < C12_Relative /\ 2 * C12_Relative < C12_Sweep + 360) =>
               Value = Max
        /\ 2 * C12_Relative >= C12_Sweep + 360 => Value = Min

\* updateValueFromAngle at the exact midpoint of the dead zone of a non-wrapping knob
\* has stored Min
C12_Witness ==
    /\ lastOp.kind = "updateValueFromAngle"
    /\ ~Wrapping
    /\ 2 * C12_Relative = C12_Sweep + 360
    /\ Value = Min

\* C13: for an angle inside the sweep (relative <= sweep) the stored value is
\* Min + (relative / sweep) * (Max - Min); with StartAngle 0 and EndAngle 180 on a
\* non-wrapping knob, angle 0 gives Min, angle 180 gives Max and angle 90 gives
\* (Min + Max) / 2.
C13_LinearInsideSweep ==
    lastOp.kind = "updateValueFromAngle" =>
        /\ C12_Relative <= C12_Sweep =>
               Value = FAdd(Min, FMul(Frac(C12_Relative, C12_Sweep), FSub(Max, Min)))
        /\ (StartAngle = R(0) /\ EndAngle = R(180) /\ ~Wrapping) =>
               /\ lastOp.val = R(0) => Value = Min
               /\ lastOp.val = R(180) => Value = Max
               /\ lastOp.val = R(90) => Value = FDiv(FAdd(Min, Max), R(2))

\* updateValueFromAngle(45) on the non-wrapping half-circle knob has stored the value
\* a quarter of the range above Min
C13_Witness ==
    /\ lastOp.kind = "updateValueFromAngle"
    /\ StartAngle = R(0) /\ EndAngle = R(180) /\ ~Wrapping
    /\ lastOp.val = R(45)
    /\ Value = FAdd(Min, FDiv(FSub(Max, Min), R(4)))

-----------------------------------------------------------------------------
(* NewRotatingKnob with arbitrary arguments *)

\* the constructor's arguments are whole numbers of -MaxArg..MaxArg
MaxArg == 5

\* the record of a constructor call with its two arguments
NewOp(lo, hi) ==
    [kind |-> "New", val |-> R(0), pos |-> NoPos, again |-> FALSE, prevFired |-> 0,
     min |-> R(lo), max |-> R(hi)]

\* knob := NewRotatingKnob(lo, hi), for every pair of arguments (min >= max included)
ConstructInit ==
    \E lo \in -MaxArg..MaxArg, hi \in -MaxArg..MaxArg :
        /\ NewRotatingKnob(R(lo), R(hi))
        /\ lastOp = NewOp(lo, hi)
        /\ calls = <<>>
        /\ stack = <<>>
        /\ NoRenderer /\ NoGame

\* the new knob's drag is released
ConstructNext == DragEnd

ConstructSpec == ConstructInit /\ [][ConstructNext]_vars

\* C15: NewRotatingKnob(min, max) returns an enabled knob with Min = min, Max = max,
\* Value = (min + max) / 2, StartAngle = -135, EndAngle = 135, ShowTicks = true,
\* TickCount = 11 and Step = (max - min) / 100, with OnChanged and OnChangeEnded
\* unset.
C15_ConstructorDefaults ==
    lastOp.kind = "New" =>
        /\ ~disabled
        /\ Min = lastOp.min
        /\ Max = lastOp.max
        /\ Value = FDiv(FAdd(lastOp.min, lastOp.max), R(2))
        /\ StartAngle = R(-135)
        /\ EndAngle = R(135)
        /\ ShowTicks = TRUE
        /\ TickCount = 11
        /\ Step = FDiv(FSub(lastOp.max, lastOp.min), R(100))
        /\ OnChanged = "nil"
        /\ OnChangeEnded = "nil"

\* NewRotatingKnob(-5, 2) has returned a knob at -3/2 with Step 7/100
C15_Witness ==
    /\ lastOp.kind = "New"
    /\ lastOp.min = R(-5) /\ lastOp.max = R(2)
    /\ Value = <<-3, 2>>
    /\ Step = <<7, 100>>

-----------------------------------------------------------------------------
(* Properties of data binding *)

\* v lies in [Min, Max]
InRange(v) == FLe(Min, v) /\ FLe(v, Max)

-----------------------------------------------------------------------------
(* A bound knob, its calls followed step by step through the data binding *)

\* the deepest nesting of calls the model follows
MaxDepth == 6

\* a call in progress: SetValue of the knob or Set of the data source, its argument,
\* and whether it has still to start or waits for the call it made to return
Frame(fn, arg) == [fn |-> fn, arg |-> arg, pc |-> "start"]

Top == stack[Len(stack)]

Pop == SubSeq(stack, 1, Len(stack) - 1)

\* the top call makes the nested call f and waits for it
Nest(f) == Append(Pop, [Top EXCEPT !.pc = "waiting"]) \o <<f>>

\* a knob of NewRotatingKnobWithData (possibly with Wrapping assigned before Bind) on
\* a source that holds w, a value of the knob's range
BoundInit ==
    /\ \E r \in Ranges :
          /\ Min = r[1]
          /\ Max = r[2]
          /\ Step = FDiv(FSub(r[2], r[1]), R(100))
          /\ \E w \in {v \in InputValues(r[1], r[2]) : FLe(r[1], v) /\ FLe(v, r[2])} :
                /\ Value = w
                /\ data = w
                /\ lastOp = [FirstOp("Bind") EXCEPT !.val = w]
    /\ StartAngle = R(-135)
    /\ EndAngle = R(135)
    /\ Wrapping \in BOOLEAN
    /\ ShowTicks = TRUE
    /\ TickCount = 11
    /\ disabled = FALSE
    /\ OnChanged = "writeData"
    /\ OnChangeEnded = "nil"
    /\ bound = TRUE
    /\ calls = <<>>
    /\ stack = <<>>
    /\ NoRenderer /\ NoGame

\* the caller calls knob.SetValue(v)
CallSetValue(v) ==
    /\ stack = <<>>
    /\ stack' = <<Frame("SetValue", v)>>
    /\ calls' = <<>>
    /\ lastOp' = Op("SetValue", v, NoPos)
    /\ UNCHANGED <<Value, data, knobConfig, disabled, OnChanged, OnChangeEnded, bound>>
    /\ UNCHANGED otherObjects

\* the caller calls source.Set(w)
CallSourceSet(w) ==
    /\ stack = <<>>
    /\ stack' = <<Frame("Set", w)>>
    /\ calls' = <<>>
    /\ lastOp' = Op("DataSet", w, NoPos)
    /\ UNCHANGED <<Value, data, knobConfig, disabled, OnChanged, OnChangeEnded, bound>>
    /\ UNCHANGED otherObjects

\* a SetValue that has no `if k.Value == value { return }` check
RunSetValueUnchecked ==
    /\ stack # <<>>
    /\ Top.fn = "SetValue" /\ Top.pc = "start"
    /\ Len(stack) < MaxDepth
    /\ LET nv == clampOrWrap(Top.arg)
       IN  /\ Value' = nv
           /\ calls' = calls \o fireOnChanged(nv)
           /\ stack' = IF OnChanged = "writeData" /\ bound
                       THEN Nest(Frame("Set", nv))
                       ELSE Pop
    /\ UNCHANGED <<data, lastOp, knobConfig, disabled, OnChanged, OnChangeEnded, bound>>
    /\ UNCHANGED otherObjects

\* the body of SetValue: return on an equal value; otherwise store it and invoke
\* OnChanged, whose closure calls writeData, which calls source.Set(k.Value)
RunSetValue ==
    /\ stack # <<>>
    /\ Top.fn = "SetValue" /\ Top.pc = "start"
    /\ LET nv == clampOrWrap(Top.arg)
       IN  IF FEq(Value, nv)
           THEN stack' = Pop /\ UNCHANGED <<Value, calls>>
           ELSE /\ Len(stack) < MaxDepth
                /\ Value' = nv
                /\ calls' = calls \o fireOnChanged(nv)
                /\ stack' = IF OnChanged = "writeData" /\ bound
                            THEN Nest(Frame("Set", nv))
                            ELSE Pop
    /\ UNCHANGED <<data, lastOp, knobConfig, disabled, OnChanged, OnChangeEnded, bound>>
    /\ UNCHANGED otherObjects

\* the body of source.Set: return on an equal value; otherwise store it and notify
\* the listener of a bound knob, updateFromData, which calls k.SetValue with the
\* source's value
RunSourceSet ==
    /\ stack # <<>>
    /\ Top.fn = "Set" /\ Top.pc = "start"
    /\ IF FEq(data, Top.arg)
       THEN stack' = Pop /\ UNCHANGED data
       ELSE /\ Len(stack) < MaxDepth
            /\ data' = Top.arg
            /\ stack' = IF bound THEN Nest(Frame("SetValue", Top.arg)) ELSE Pop
    /\ UNCHANGED <<Value, calls, lastOp, knobConfig, disabled, OnChanged,
                   OnChangeEnded, bound>>
    /\ UNCHANGED otherObjects

\* the nested call has returned: the waiting call returns too
Return ==
    /\ stack # <<>>
    /\ Top.pc = "waiting"
    /\ stack' = Pop
    /\ UNCHANGED <<Value, data, calls, lastOp, knobConfig, disabled, OnChanged,
                   OnChangeEnded, bound>>
    /\ UNCHANGED otherObjects

\* the caller calls knob.Unbind(); the source keeps its value
CallUnbind ==
    /\ stack = <<>>
    /\ UnbindKnob
    /\ lastOp' = FirstOp("Unbind")
    /\ calls' = <<>>
    /\ UNCHANGED <<data, stack, otherObjects>>

\* a call in progress runs on
Run == RunSetValue \/ RunSourceSet \/ Return

BoundNext ==
    \/ \E v \in InputValues(Min, Max) : CallSetValue(v)
    \/ \E w \in InputValues(Min, Max) : CallSourceSet(w)
    \/ CallUnbind
    \/ RunSetValue
    \/ RunSourceSet
    \/ Return

\* a call that has started keeps running: nothing else runs on the UI thread
BoundSpec == BoundInit /\ [][BoundNext]_vars /\ WF_vars(Run)

\* C17: on a bound knob whose source notifies synchronously, every SetValue and
\* every source Set returns: the calls never nest deeper than four (Set, SetValue,
\* Set, SetValue), the innermost SetValue finds the value equal and returns, and
\* OnChanged is invoked at most once per call of the caller.
C17_NotificationChainEnds ==
    /\ [](Len(stack) <= 4 /\ Count(calls, "OnChanged") <= 1)
    /\ (stack # <<>>) ~> (stack = <<>>)

\* source.Set above Max on a non-wrapping knob has returned: the knob went to Max,
\* invoked OnChanged once and wrote Max back to the source
C17_Witness ==
    /\ stack = <<>>
    /\ lastOp.kind = "DataSet"
    /\ ~Wrapping
    /\ FGt(lastOp.val, Max)
    /\ calls = <<Call("OnChanged", Max)>>
    /\ data = Max

\* C18: Unbind leaves Value as it was while bound, clears OnChanged and leaves the
\* source alone; after Unbind a knob SetValue invokes no OnChanged and does not write
\* to the former data source.
C18_UnbindDetaches ==
    [][/\ (bound /\ ~bound') =>
              Value' = Value /\ OnChanged' = "nil" /\ data' = data
       /\ (~bound /\ lastOp'.kind = "SetValue") =>
              data' = data /\ ~Fired(calls', "OnChanged")]_vars

\* after Unbind, SetValue(v) has changed the knob to v and the former source still
\* holds another value
C18_Witness ==
    /\ ~bound
    /\ stack = <<>>
    /\ lastOp.kind = "SetValue"
    /\ Value = lastOp.val
    /\ data # Value

-----------------------------------------------------------------------------
(* Properties of the wheel and of taps *)

\* the value a wheel event leaves: that of an Up key for DY > 0, of a Down key for
\* DY < 0, the value itself for DY = 0
C19_Expected(dy) ==
    IF dy > 0 THEN C8_Expected("Up")
    ELSE IF dy < 0 THEN C8_Expected("Down")
    ELSE Value

\* C19: Scrolled on an enabled knob calls SetValue(Value + s) for DY > 0 and
\* SetValue(Value - s) for DY < 0, s being Step, or (Max - Min) / 100 when Step is 0;
\* every wheel event invokes OnChangeEnded once, with the new Value, after the
\* OnChanged of that event if there is one.
C19_ScrolledEndsEachEvent ==
    [][\A dy \in ScrollDYs :
          (~disabled /\ Scrolled(dy)) =>
              /\ Value' = C19_Expected(dy)
              /\ calls' = (IF Value' # Value /\ OnChanged # "nil"
                           THEN <<Call("OnChanged", Value')>> ELSE <<>>)
                          \o (IF OnChangeEnded # "nil"
                              THEN <<Call("OnChangeEnded", Value')>> ELSE <<>>)]_vars

\* a wheel event changed the value and invoked OnChanged, then OnChangeEnded
C19_Witness ==
    /\ lastOp.kind = "Scrolled"
    /\ calls = <<Call("OnChanged", Value), Call("OnChangeEnded", Value)>>

\* C20: a tap that changes the value invokes OnChangeEnded with the knob's Value,
\* and a second tap at the same position, which changes nothing, does not invoke
\* OnChangeEnded again.
C20_SecondTapSilent ==
    lastOp.kind = "Tapped" =>
        /\ (Fired(calls, "OnChanged") /\ OnChangeEnded # "nil") =>
               calls = <<Call("OnChanged", Value), Call("OnChangeEnded", Value)>>
        /\ lastOp.again => ~Fired(calls, "OnChangeEnded")

-----------------------------------------------------------------------------
(* The loops of SetValue and of updateValueFromAngle, one iteration per step *)

\* the SetValue arguments of the loop specification: the arguments of the event
\* machine and the two huge finite values
LoopValues == InputValues(R(TestMin), R(TestMax)) \cup {Huge, NegHuge}

\* the (StartAngle, EndAngle) pairs of the loop specification: the default, the same
\* sweep a turn and a half away from [0, 360), and a huge start or end angle
LoopAngleConfigs ==
    {<<R(-135), R(135)>>, <<R(585), R(-585)>>, <<Huge, R(135)>>, <<R(-135), NegHuge>>}

\* the angles updateValueFromAngle is called with in the loop specification
LoopAngles == {R(0), R(90), R(180), R(270)}

\* a running call: its function, the statement it is at and its local variables;
\* spins is the parity of the iterations the loop it is in has run
LoopFrame(fn, pc, locals) == [fn |-> fn, pc |-> pc, locals |-> locals]

\* the innermost running call with its pc and its locals replaced
Goto(pc, locals) == Append(Pop, LoopFrame(Top.fn, pc, locals))

\* a knob after NewRotatingKnob(0, 100) and the assignment of its angles, of its
\* Wrapping flag and, possibly, of its OnChanged; no call is running
LoopInit ==
    /\ \E a \in LoopAngleConfigs :
          /\ StartAngle = a[1]
          /\ EndAngle = a[2]
    /\ Value = R((TestMin + TestMax) \div 2)
    /\ Min = R(TestMin)
    /\ Max = R(TestMax)
    /\ Step = R(1)
    /\ Wrapping \in BOOLEAN
    /\ ShowTicks = TRUE
    /\ TickCount = 11
    /\ disabled = FALSE
    /\ OnChanged \in {"nil", "user"}
    /\ OnChangeEnded = "nil"
    /\ bound = FALSE
    /\ data = R(0)
    /\ lastOp = FirstOp("New")
    /\ calls = <<>>
    /\ stack = <<>>
    /\ NoRenderer /\ NoGame

\* what a step of a running call leaves alone
LoopKeeps ==
    UNCHANGED <<knobConfig, disabled, OnChanged, OnChangeEnded, bound, lastOp, otherObjects>>

\* knob.SetValue(v) is called
LoopCallSetValue(v) ==
    /\ stack = <<>>
    /\ stack' = <<LoopFrame("SetValue", IF Wrapping THEN "wrapUp" ELSE "clamp",
                            [value |-> v, spins |-> 0])>>
    /\ lastOp' = Op("SetValue", v, NoPos)
    /\ calls' = <<>>
    /\ UNCHANGED <<Value, data>>
    /\ UNCHANGED <<knobConfig, disabled, OnChanged, OnChangeEnded, bound>>
    /\ UNCHANGED otherObjects

\* SetValue, not wrapping: if value < k.Min { value = k.Min }; if value > k.Max { ... }
StepClamp ==
    /\ stack # <<>> /\ Top.fn = "SetValue" /\ Top.pc = "clamp"
    /\ LET v1 == IF FLt(Top.locals.value, Min) THEN Min ELSE Top.locals.value
           v2 == IF FGt(v1, Max) THEN Max ELSE v1
       IN  stack' = Goto("store", [value |-> v2, spins |-> 0])
    /\ UNCHANGED <<Value, data, calls>>
    /\ LoopKeeps

\* SetValue, wrapping: one test of `for value < k.Min` and, if it holds, one
\* value += valueRange
StepWrapUp ==
    /\ stack # <<>> /\ Top.fn = "SetValue" /\ Top.pc = "wrapUp"
    /\ stack' = IF FLt(Top.locals.value, Min)
                THEN Goto("wrapUp", [value |-> FAdd(Top.locals.value, FSub(Max, Min)),
                                     spins |-> 1 - Top.locals.spins])
                ELSE Goto("wrapDown", [Top.locals EXCEPT !.spins = 0])
    /\ UNCHANGED <<Value, data, calls>>
    /\ LoopKeeps

\* SetValue, wrapping: one test of `for value > k.Max` and, if it holds, one
\* value -= valueRange
StepWrapDown ==
    /\ stack # <<>> /\ Top.fn = "SetValue" /\ Top.pc = "wrapDown"
    /\ stack' = IF FGt(Top.locals.value, Max)
                THEN Goto("wrapDown", [value |-> FSub(Top.locals.value, FSub(Max, Min)),
                                       spins |-> 1 - Top.locals.spins])
                ELSE Goto("store", [Top.locals EXCEPT !.spins = 0])
    /\ UNCHANGED <<Value, data, calls>>
    /\ LoopKeeps

\* SetValue: return on an equal value, else store it and invoke OnChanged; return
StepStore ==
    /\ stack # <<>> /\ Top.fn = "SetValue" /\ Top.pc = "store"
    /\ LET value == Top.locals.value
       IN  IF FEq(Value, value)
           THEN UNCHANGED <<Value, data, calls>>
           ELSE /\ Value' = value
                /\ data' = writeData(data, value)
                /\ calls' = calls \o fireOnChanged(value)
    /\ stack' = Pop
    /\ LoopKeeps

\* knob.updateValueFromAngle(angle) is called
LoopCallUpdate(angle) ==
    /\ stack = <<>>
    /\ stack' = <<LoopFrame("updateValueFromAngle", "startUp",
                            [angle |-> angle, startAngle |-> StartAngle,
                             endAngle |-> EndAngle, spins |-> 0])>>
    /\ lastOp' = Op("updateValueFromAngle", angle, NoPos)
    /\ calls' = <<>>
    /\ UNCHANGED <<Value, data>>
    /\ UNCHANGED <<knobConfig, disabled, OnChanged, OnChangeEnded, bound>>
    /\ UNCHANGED otherObjects

\* updateValueFromAngle: one test of `for startAngle < 0` and one startAngle += 360
StepStartUp ==
    /\ stack # <<>> /\ Top.fn = "updateValueFromAngle" /\ Top.pc = "startUp"
    /\ stack' = IF FLt(Top.locals.startAngle, R(0))
                THEN Goto("startUp", [Top.locals EXCEPT
                                         !.startAngle = FAdd(@, R(360)), !.spins = 1 - @])
                ELSE Goto("endUp", [Top.locals EXCEPT !.spins = 0])
    /\ UNCHANGED <<Value, data, calls>>
    /\ LoopKeeps

\* updateValueFromAngle: one test of `for endAngle < 0` and one endAngle += 360
StepEndUp ==
    /\ stack # <<>> /\ Top.fn = "updateValueFromAngle" /\ Top.pc = "endUp"
    /\ stack' = IF FLt(Top.locals.endAngle, R(0))
                THEN Goto("endUp", [Top.locals EXCEPT
                                       !.endAngle = FAdd(@, R(360)), !.spins = 1 - @])
                ELSE Goto("startDown", [Top.locals EXCEPT !.spins = 0])
    /\ UNCHANGED <<Value, data, calls>>
    /\ LoopKeeps

\* updateValueFromAngle: one test of `for startAngle >= 360` and one startAngle -= 360
StepStartDown ==
    /\ stack # <<>> /\ Top.fn = "updateValueFromAngle" /\ Top.pc = "startDown"
    /\ stack' = IF FGe(Top.locals.startAngle, R(360))
                THEN Goto("startDown", [Top.locals EXCEPT
                                           !.startAngle = FSub(@, R(360)), !.spins = 1 - @])
                ELSE Goto("endDown", [Top.locals EXCEPT !.spins = 0])
    /\ UNCHANGED <<Value, data, calls>>
    /\ LoopKeeps

\* updateValueFromAngle: one test of `for endAngle >= 360` and one endAngle -= 360
StepEndDown ==
    /\ stack # <<>> /\ Top.fn = "updateValueFromAngle" /\ Top.pc = "endDown"
    /\ stack' = IF FGe(Top.locals.endAngle, R(360))
                THEN Goto("endDown", [Top.locals EXCEPT
                                         !.endAngle = FSub(@, R(360)), !.spins = 1 - @])
                ELSE Goto("map", [Top.locals EXCEPT !.spins = 0])
    /\ UNCHANGED <<Value, data, calls>>
    /\ LoopKeeps

\* updateValueFromAngle: the sweep, the relative angle, the ratio and the value, and
\* the call k.SetValue(value)
StepMap ==
    /\ stack # <<>> /\ Top.fn = "updateValueFromAngle" /\ Top.pc = "map"
    /\ stack' = Goto("waiting", Top.locals)
                  \o <<LoopFrame("SetValue", IF Wrapping THEN "wrapUp" ELSE "clamp",
                                 [value |-> valueFromAngle(Top.locals.angle),
                                  spins |-> 0])>>
    /\ UNCHANGED <<Value, data, calls>>
    /\ LoopKeeps

\* updateValueFromAngle returns after its SetValue has returned
StepReturn ==
    /\ stack # <<>> /\ Top.pc = "waiting"
    /\ stack' = Pop
    /\ UNCHANGED <<Value, data, calls>>
    /\ LoopKeeps

\* the running call executes its next statement, any but the one of StepMap
LoopStep ==
    \/ StepClamp
    \/ StepWrapUp
    \/ StepWrapDown
    \/ StepStore
    \/ StepStartUp
    \/ StepEndUp
    \/ StepStartDown
    \/ StepEndDown
    \/ StepReturn

\* the running call is at the statement of StepMap
AtMap == stack # <<>> /\ Top.pc = "map"

LoopNext ==
    \/ \E v \in LoopValues : LoopCallSetValue(v)
    \/ \E angle \in LoopAngles : LoopCallUpdate(angle)
    \/ LoopStep
    \/ StepMap

\* a running call keeps executing: weak fairness of LoopStep and of StepMap, the
\* latter written as []<>~AtMap (StepMap is enabled exactly when AtMap holds, and
\* it ends AtMap)
LoopSpec == LoopInit /\ [][LoopNext]_vars /\ WF_vars(LoopStep) /\ []<>~AtMap

\* C21: input normalization is total: with Min < Max, every call of SetValue with a
\* finite value, wrapping or not, and every call of updateValueFromAngle on a knob
\* with finite StartAngle and EndAngle returns: the wrap loops and the mod-360 loops
\* finish.
C21_NormalizationTotal == (stack # <<>>) ~> (stack = <<>>)

\* C21 for the inputs that are not huge: every call returns
C21_ModerateInputsReturn ==
    (stack # <<>> /\ ~IsHuge(lastOp.val) /\ ~IsHuge(StartAngle) /\ ~IsHuge(EndAngle))
        ~> (stack = <<>>)

-----------------------------------------------------------------------------
(* updateValueFromAngle on knobs of every start and end angle, zero sweep included *)

\* the values assigned to knob.StartAngle and knob.EndAngle
SweepAngles == {R(-360), R(-135), R(0), R(90), R(135), R(180), R(360), R(495)}

\* a knob after NewRotatingKnob(0, 100) and the assignment of its angles, of its
\* Wrapping flag and, possibly, of its OnChanged
SweepInit ==
    /\ StartAngle \in SweepAngles
    /\ EndAngle \in SweepAngles
    /\ Value = R((TestMin + TestMax) \div 2)
    /\ Min = R(TestMin)
    /\ Max = R(TestMax)
    /\ Step = R(1)
    /\ Wrapping \in BOOLEAN
    /\ ShowTicks = TRUE
    /\ TickCount = 11
    /\ disabled = FALSE
    /\ OnChanged \in {"nil", "user"}
    /\ OnChangeEnded = "nil"
    /\ bound = FALSE
    /\ data = R(0)
    /\ lastOp = FirstOp("New")
    /\ calls = <<>>
    /\ stack = <<>>
    /\ NoRenderer /\ NoGame

\* the angles handed to updateValueFromAngle: every 30th degree of [0, 360), and 5
\* and 45 degrees
SweepTestAngles == {R(30 * i) : i \in 0..11} \cup {R(5), R(45)}

SweepNext == \E angle \in SweepTestAngles : UpdateValueFromAngle(angle)

SweepSpec == SweepInit /\ [][SweepNext]_vars

\* C22: the sweep the angle-to-value mapper uses, (EndAngle - StartAngle) mod 360
\* after both are normalized into [0, 360), lies in (0, 360] for every StartAngle
\* and EndAngle.
C22_SweepInHalfOpenAbove ==
    lastOp.kind = "updateValueFromAngle" =>
        /\ FGt(sweepOf(StartAngle, EndAngle), R(0))
        /\ FLe(sweepOf(StartAngle, EndAngle), R(360))

\* C22, what the mapper computes: a sweep in [0, 360), which is 0 exactly when
\* StartAngle and EndAngle are congruent modulo 360
C22_SweepInHalfOpenBelow ==
    lastOp.kind = "updateValueFromAngle" =>
        /\ FGe(sweepOf(StartAngle, EndAngle), R(0))
        /\ FLt(sweepOf(StartAngle, EndAngle), R(360))
        /\ FEq(sweepOf(StartAngle, EndAngle), R(0))
             <=> (EndAngle[1] - StartAngle[1]) % 360 = 0

\* with a zero sweep the mapper divides by zero and stores NaN
C22_ZeroSweepStoresNaN ==
    (lastOp.kind = "updateValueFromAngle" /\ FEq(sweepOf(StartAngle, EndAngle), R(0)))
        => Value = NaN

-----------------------------------------------------------------------------
(* The renderer: Layout *)

\* Layout: ratio := (Value - Min) / (Max - Min), 0 when Max == Min
layoutRatio ==
    IF FEq(Max, Min) THEN R(0) ELSE FDiv(FSub(Value, Min), FSub(Max, Min))

\* Layout: sweep := endAngle - startAngle, plus 360 when not positive; the angles
\* are taken as the knob holds them
layoutSweep ==
    LET sweep == FSub(EndAngle, StartAngle)
    IN  IF FLe(sweep, R(0)) THEN FAdd(sweep, R(360)) ELSE sweep

\* Layout: currentAngle := startAngle + ratio*sweep, the angle of the indicator
currentAngle == FAdd(StartAngle, FMul(layoutRatio, layoutSweep))

\* the angles a and b differ by a whole number of turns
SameDirection(a, b) ==
    /\ IsFinite(a) /\ IsFinite(b)
    /\ FDiv(FSub(a, b), R(360))[2] = 1

\* the angle lies strictly inside the sweep of the mapper
StrictlyInside(angle) ==
    /\ FGt(relativeOf(angle, StartAngle), R(0))
    /\ FLt(relativeOf(angle, StartAngle), sweepOf(StartAngle, EndAngle))

\* C23: for every angle a strictly inside the sweep, the angle Layout derives from
\* the Value that updateValueFromAngle(a) stored,
\* StartAngle + ((Value - Min) / (Max - Min)) * sweep, equals a modulo 360.
C23_RoundTrip ==
    (lastOp.kind = "updateValueFromAngle" /\ StrictlyInside(lastOp.val))
        => SameDirection(currentAngle, lastOp.val)

\* C23 on the knobs whose EndAngle and StartAngle are less than a turn apart: there
\* the sweep of Layout is the sweep of the mapper and the round trip holds
C23_RoundTripWithinOneTurn ==
    (/\ lastOp.kind = "updateValueFromAngle" /\ StrictlyInside(lastOp.val)
     /\ FLt(FSub(EndAngle, StartAngle), R(360))
     /\ FGt(FSub(EndAngle, StartAngle), R(-360)))
        => /\ layoutSweep = sweepOf(StartAngle, EndAngle)
           /\ SameDirection(currentAngle, lastOp.val)

-----------------------------------------------------------------------------
(* Pointer events at the centre, the edge midpoints and the corners of the widget *)

\* the pointer positions: the 3 x 3 grid over the widget
GridPositions ==
    {<<x, y>> : x \in {0, Width \div 2, Width}, y \in {0, Height \div 2, Height}}

\* a knob after NewRotatingKnob(0, 100), resized to Width x Height, after the
\* assignment of its Wrapping flag and, possibly, of its callbacks
PointInit ==
    /\ Value = R((TestMin + TestMax) \div 2)
    /\ Min = R(TestMin)
    /\ Max = R(TestMax)
    /\ Step = R(1)
    /\ StartAngle = R(-135)
    /\ EndAngle = R(135)
    /\ Wrapping \in BOOLEAN
    /\ ShowTicks = TRUE
    /\ TickCount = 11
    /\ disabled = FALSE
    /\ OnChanged \in {"nil", "user"}
    /\ OnChangeEnded \in {"nil", "user"}
    /\ bound = FALSE
    /\ data = R(0)
    /\ lastOp = FirstOp("New")
    /\ calls = <<>>
    /\ stack = <<>>
    /\ NoRenderer /\ NoGame

PointNext ==
    \/ \E pos \in GridPositions : Dragged(pos)
    \/ DragEnd
    \/ \E pos \in GridPositions : Tapped(pos)

PointSpec == PointInit /\ [][PointNext]_vars

\* the position of the last drag or tap event
AtPoint(x, y) == lastOp.kind \in {"Dragged", "Tapped"} /\ lastOp.pos = <<x, y>>

\* C24 as stated: getAngleFromPoint returns an angle in [0, 360) measured clockwise
\* from up about the centre Size/2: a point straight above gives 0, to the right 90,
\* below 180, to the left 270, and the centre itself gives 0.
C24_CentreGivesZero ==
    lastOp.kind \in {"Dragged", "Tapped"} =>
        /\ FGe(getAngleFromPoint(lastOp.pos), R(0))
        /\ FLt(getAngleFromPoint(lastOp.pos), R(360))
        /\ AtPoint(Width \div 2, 0) => getAngleFromPoint(lastOp.pos) = R(0)
        /\ AtPoint(Width, Height \div 2) => getAngleFromPoint(lastOp.pos) = R(90)
        /\ AtPoint(Width \div 2, Height) => getAngleFromPoint(lastOp.pos) = R(180)
        /\ AtPoint(0, Height \div 2) => getAngleFromPoint(lastOp.pos) = R(270)
        /\ AtPoint(Width \div 2, Height \div 2) => getAngleFromPoint(lastOp.pos) = R(0)

\* C24: getAngleFromPoint returns an angle in [0, 360) measured clockwise from up
\* about the centre Size/2: a point straight above gives 0, to the right 90, below
\* 180, to the left 270; the centre itself gives 180 (Atan2(+0, -0) is Pi), and the
\* knob stores the value of the angle 180, which is not the value of the angle 0.
C24_CentreGivesHalfTurn ==
    lastOp.kind \in {"Dragged", "Tapped"} =>
        /\ FGe(getAngleFromPoint(lastOp.pos), R(0))
        /\ FLt(getAngleFromPoint(lastOp.pos), R(360))
        /\ AtPoint(Width \div 2, 0) => getAngleFromPoint(lastOp.pos) = R(0)
        /\ AtPoint(Width, Height \div 2) => getAngleFromPoint(lastOp.pos) = R(90)
        /\ AtPoint(Width \div 2, Height) => getAngleFromPoint(lastOp.pos) = R(180)
        /\ AtPoint(0, Height \div 2) => getAngleFromPoint(lastOp.pos) = R(270)
        /\ AtPoint(Width \div 2, Height \div 2) =>
               /\ getAngleFromPoint(lastOp.pos) = R(180)
               /\ Value = valueFromAngle(R(180))
               /\ Value # valueFromAngle(R(0))

\* the centre was tapped
C24_Witness == lastOp.kind = "Tapped" /\ lastOp.pos = <<Width \div 2, Height \div 2>>

-----------------------------------------------------------------------------
(* The renderer's tick marks *)

\* the largest TickCount assigned to the knob, the default of 11 aside
MaxTicks == 4

\* the values assigned to knob.TickCount
TickChoices == 0..MaxTicks \cup {11}

\* a knob after NewRotatingKnob(0, 100) and the assignment of its angles, of ShowTicks
\* and of TickCount; its renderer has not been created
RenderInit ==
    /\ \E a \in AngleConfigs :
          /\ StartAngle = a[1]
          /\ EndAngle = a[2]
    /\ Value = R((TestMin + TestMax) \div 2)
    /\ Min = R(TestMin)
    /\ Max = R(TestMax)
    /\ Step = R(1)
    /\ Wrapping = FALSE
    /\ ShowTicks \in BOOLEAN
    /\ TickCount \in TickChoices
    /\ disabled = FALSE
    /\ OnChanged = "nil"
    /\ OnChangeEnded = "nil"
    /\ bound = FALSE
    /\ data = R(0)
    /\ lastOp = FirstOp("New")
    /\ calls = <<>>
    /\ stack = <<>>
    /\ NoRenderer /\ NoGame

\* what the renderer leaves alone
RenderKeeps ==
    UNCHANGED <<Value, data, disabled, OnChanged, OnChangeEnded, bound, lastOp, calls,
                stack, gameVars>>

\* knob.CreateRenderer(): one tick line per TickCount if ShowTicks && TickCount > 0
CreateRenderer ==
    /\ ~rendered
    /\ rendered' = TRUE
    /\ ticks' = [i \in 1..(IF ShowTicks /\ TickCount > 0 THEN TickCount ELSE 0)
                   |-> "unplaced"]
    /\ UNCHANGED knobConfig
    /\ RenderKeeps

\* Layout: tickRatio := float64(i) / float64(len(r.ticks)-1);
\* tickAngle := startAngle + tickRatio*sweep, for the i-th of n ticks (i from 0)
tickAngle(i, n) == FAdd(StartAngle, FMul(FDiv(R(i), R(n - 1)), layoutSweep))

\* renderer.Layout(size): the tick lines are placed if ShowTicks && len(r.ticks) > 0
Layout ==
    /\ rendered
    /\ ticks' = IF ShowTicks /\ Len(ticks) > 0
                THEN [i \in 1..Len(ticks) |-> tickAngle(i - 1, Len(ticks))]
                ELSE ticks
    /\ UNCHANGED <<rendered, knobConfig>>
    /\ RenderKeeps

\* knob.ShowTicks = show; knob.TickCount = n
AssignTicks(show, n) ==
    /\ ShowTicks' = show
    /\ TickCount' = n
    /\ UNCHANGED <<Min, Max, Step, StartAngle, EndAngle, Wrapping, rendererVars>>
    /\ RenderKeeps

RenderNext ==
    \/ CreateRenderer
    \/ Layout
    \/ \E show \in BOOLEAN, n \in TickChoices : AssignTicks(show, n)

RenderSpec == RenderInit /\ [][RenderNext]_vars

\* Layout has placed the tick lines, one per TickCount
TicksPlaced ==
    /\ rendered /\ ShowTicks /\ TickCount >= 1
    /\ Len(ticks) = TickCount
    /\ ticks[1] # "unplaced"

\* C25: Layout places the N tick marks in N-1 equal segments across the sweep: tick i
\* (0 <= i < N) is at StartAngle + (i/(N-1)) * sweep, so that the first tick is at
\* StartAngle and the last at EndAngle modulo 360, for every TickCount N >= 1 with
\* ShowTicks set.
C25_TicksEvenlySpaced ==
    TicksPlaced =>
        /\ \A i \in 0..(TickCount - 1) :
              ticks[i + 1] = FAdd(StartAngle,
                                  FMul(FDiv(R(i), R(TickCount - 1)), layoutSweep))
        /\ ticks[1] = StartAngle
        /\ SameDirection(ticks[TickCount], EndAngle)

\* C25 for two ticks or more
C25_TwoTicksOrMore ==
    (TicksPlaced /\ TickCount >= 2) =>
        /\ \A i \in 0..(TickCount - 1) :
              ticks[i + 1] = FAdd(StartAngle,
                                  FMul(FDiv(R(i), R(TickCount - 1)), layoutSweep))
        /\ ticks[1] = StartAngle
        /\ SameDirection(ticks[TickCount], EndAngle)

\* a single tick is placed at NaN: its ratio is 0/0
C25_SingleTickAtNaN == (TicksPlaced /\ TickCount = 1) => ticks[1] = NaN

-----------------------------------------------------------------------------
(* The earlier variant of updateValueFromAngle, which clamps the whole dead zone *)
(* to the end of the sweep                                                     *)

\* the earlier variant: if !k.Wrapping && relativeAngle > sweep { relativeAngle = sweep }
simpleDeadZoneClamp(relativeAngle, sweep) ==
    IF ~Wrapping /\ FGt(relativeAngle, sweep) THEN sweep ELSE relativeAngle

\* the earlier variant: the value handed to SetValue
simpleValueFromAngle(angle) ==
    LET sweep == sweepOf(StartAngle, EndAngle)
        relativeAngle == simpleDeadZoneClamp(relativeOf(angle, StartAngle), sweep)
        ratio0 == FDiv(relativeAngle, sweep)
        ratio == IF FGt(ratio0, R(1)) THEN FMod1(ratio0) ELSE ratio0
    IN  FAdd(Min, FMul(ratio, FSub(Max, Min)))

\* the earlier variant of updateValueFromAngle; its SetValue is the same
simpleUpdateValueFromAngle(angle) == SetValueResult(simpleValueFromAngle(angle))

\* the angle lies in the second half of the dead zone of a non-wrapping knob:
\* relative >= sweep + deadZone/2
InSecondHalfOfDeadZone(angle) ==
    LET sweep == sweepOf(StartAngle, EndAngle)
    IN  /\ ~Wrapping
        /\ FGe(relativeOf(angle, StartAngle),
               FAdd(sweep, FDiv(FSub(R(360), sweep), R(2))))

\* C26: the two variants of updateValueFromAngle store the same Value for every
\* configuration and angle, except on a non-wrapping knob for an angle in the second
\* half of the dead zone (relative >= sweep + deadZone/2): there the earlier variant
\* stores Max and the bisecting variant stores Min.
C26_VariantsDifferInSecondHalf ==
    [][lastOp'.kind = "updateValueFromAngle" =>
          IF InSecondHalfOfDeadZone(lastOp'.val)
          THEN /\ simpleUpdateValueFromAngle(lastOp'.val).Value = Max
               /\ Value' = Min
          ELSE Value' = simpleUpdateValueFromAngle(lastOp'.val).Value]_vars

\* C26 on the knobs whose StartAngle and EndAngle are not congruent modulo 360
C26_VariantsOnPositiveSweep ==
    [][(/\ lastOp'.kind = "updateValueFromAngle"
        /\ FGt(sweepOf(StartAngle, EndAngle), R(0)))
          => IF InSecondHalfOfDeadZone(lastOp'.val)
             THEN /\ simpleUpdateValueFromAngle(lastOp'.val).Value = Max
                  /\ Value' = Min
             ELSE Value' = simpleUpdateValueFromAngle(lastOp'.val).Value]_vars

\* on a knob with a zero sweep both variants store NaN for every angle
C26_ZeroSweepBothNaN ==
    [][(/\ lastOp'.kind = "updateValueFromAngle"
        /\ FEq(sweepOf(StartAngle, EndAngle), R(0)))
          => /\ simpleUpdateValueFromAngle(lastOp'.val).Value = NaN
             /\ Value' = NaN]_vars

-----------------------------------------------------------------------------
(* TicTacToe: the basic program and the accessible program *)

\* the fields of the knob, which the TicTacToe programs do not have
knobVars ==
    <<Value, data, knobConfig, disabled, OnChanged, OnChangeEnded, bound, lastOp, calls,
      stack, rendererVars>>

\* no knob is in use: one knob as constructed, never touched
IdleKnob ==
    /\ NewRotatingKnob(R(TestMin), R(TestMax))
    /\ lastOp = FirstOp("New")
    /\ calls = <<>>
    /\ stack = <<>>
    /\ NoRenderer

\* lines := [][3]int{...}: rows, columns, diagonals
WinLines ==
    << <<0, 1, 2>>, <<3, 4, 5>>, <<6, 7, 8>>,
       <<0, 3, 6>>, <<1, 4, 7>>, <<2, 5, 8>>,
       <<0, 4, 8>>, <<2, 4, 6>> >>

\* the indices of the lines of b that hold three equal marks
FullLines(b) ==
    {n \in DOMAIN WinLines :
        /\ b[WinLines[n][1]] # ""
        /\ b[WinLines[n][1]] = b[WinLines[n][2]]
        /\ b[WinLines[n][2]] = b[WinLines[n][3]]}

\* the smallest of a non-empty set of numbers
Least(S) == CHOOSE n \in S : \A k \in S : n <= k

\* checkWinner: the mark of the first line that holds three equal marks, else ""
checkWinner(b) ==
    IF FullLines(b) = {} THEN "" ELSE b[WinLines[Least(FullLines(b))][1]]

\* isBoardFull
isBoardFull(b) == \A i \in Cells : b[i] # ""

\* highlightWinningLine: the cells of the first line that holds three marks of winner
highlightWinningLine(b, winner) ==
    LET won == {n \in FullLines(b) : b[WinLines[n][1]] = winner}
    IN  IF won = {} THEN {}
        ELSE {WinLines[Least(won)][k] : k \in 1..3}

\* a turn that never passes to the other player
SamePlayer(turn) == turn

\* the other player
Other(turn) == IF turn = "X" THEN "O" ELSE "X"

\* the handler that ran last: its name, the cell it tried to mark (-1 if none),
\* whether it placed a mark, and whether the game was over when it started
GameOp(kind, idx, placed) ==
    [kind |-> kind, idx |-> idx, placed |-> placed, over |-> gameOver]

\* the texts of the status label
TurnStatus(turn) == "Player " \o turn \o "'s turn."
TakenStatus(mark) == "Cell already taken by " \o mark \o ". Choose another."
WinStatus(winner) == "Game Over! Player " \o winner \o " wins! Press R for new game."
DrawStatus == "Game Over! It's a draw! Press R for new game."
FirstStatus == "Player X's turn. Use Tab to navigate, Space or Enter to place."
NewGameStatus == "New game! Player X's turn. Use Tab to navigate, Space or Enter to place."

\* the basic program after main has built its window
BasicInit ==
    /\ IdleKnob
    /\ program = "basic"
    /\ board = EmptyBoard
    /\ currentTurn = "X"
    /\ gameOver = FALSE
    /\ cells = EmptyBoard
    /\ highlighted = {}
    /\ statusLabel = ""
    /\ focus = -1
    /\ gameOp = [kind |-> "main", idx |-> -1, placed |-> FALSE, over |-> FALSE]

\* a cell that takes a mark although it holds one
tapOverwrites(idx) ==
    /\ program = "basic"
    /\ gameOp' = GameOp("Tapped", idx, ~gameOver)
    /\ IF gameOver
       THEN UNCHANGED <<board, currentTurn, gameOver, cells>>
       ELSE LET b == [board EXCEPT ![idx] = currentTurn]
            IN  /\ board' = b
                /\ cells' = [cells EXCEPT ![idx] = currentTurn]
                /\ gameOver' = (checkWinner(b) # "" \/ isBoardFull(b))
                /\ currentTurn' = IF checkWinner(b) # "" \/ isBoardFull(b)
                                  THEN currentTurn ELSE Other(currentTurn)
    /\ UNCHANGED <<highlighted, statusLabel, focus, program, knobVars>>

\* basic program: tappableCell.Tapped on the cell idx
BasicTapped(idx) ==
    /\ program = "basic"
    /\ gameOp' = GameOp("Tapped", idx, ~(gameOver \/ board[idx] # ""))
    /\ IF gameOver \/ board[idx] # ""
       THEN UNCHANGED <<board, currentTurn, gameOver, cells>>
       ELSE LET b == [board EXCEPT ![idx] = currentTurn]
            IN  /\ board' = b
                /\ cells' = [cells EXCEPT ![idx] = currentTurn]
                /\ gameOver' = (checkWinner(b) # "" \/ isBoardFull(b))
                /\ currentTurn' = IF checkWinner(b) # "" \/ isBoardFull(b)
                                  THEN currentTurn ELSE Other(currentTurn)
    /\ UNCHANGED <<highlighted, statusLabel, focus, program, knobVars>>

\* basic program: resetGame, the callback of the "New Game" button
BasicResetGame ==
    /\ program = "basic"
    /\ gameOp' = GameOp("resetGame", -1, FALSE)
    /\ board' = EmptyBoard
    /\ currentTurn' = "X"
    /\ gameOver' = FALSE
    /\ cells' = EmptyBoard
    /\ UNCHANGED <<highlighted, statusLabel, focus, program, knobVars>>

\* the accessible program after main has built its window and focused cells[4]
AccessibleInit ==
    /\ IdleKnob
    /\ program = "accessible"
    /\ board = EmptyBoard
    /\ currentTurn = "X"
    /\ gameOver = FALSE
    /\ cells = EmptyBoard
    /\ highlighted = {}
    /\ statusLabel = FirstStatus
    /\ focus = 4
    /\ gameOp = [kind |-> "main", idx |-> -1, placed |-> FALSE, over |-> FALSE]

\* accessibleCell.activate on the cell idx
activate(idx) ==
    IF gameOver \/ cells[idx] # ""
    THEN /\ statusLabel' = IF cells[idx] # "" THEN TakenStatus(cells[idx])
                           ELSE statusLabel
         /\ UNCHANGED <<board, currentTurn, gameOver, cells, highlighted>>
    ELSE LET value == currentTurn
             b == [board EXCEPT ![idx] = value]
         IN  /\ cells' = [cells EXCEPT ![idx] = value]
             /\ board' = b
             /\ IF checkWinner(b) # ""
                THEN /\ gameOver' = TRUE
                     /\ statusLabel' = WinStatus(checkWinner(b))
                     /\ highlighted' = highlightWinningLine(b, checkWinner(b))
                     /\ UNCHANGED currentTurn
                ELSE IF isBoardFull(b)
                THEN /\ gameOver' = TRUE
                     /\ statusLabel' = DrawStatus
                     /\ UNCHANGED <<currentTurn, highlighted>>
                ELSE /\ currentTurn' = Other(currentTurn)
                     /\ statusLabel' = TurnStatus(Other(currentTurn))
                     /\ UNCHANGED <<gameOver, highlighted>>

\* whether activate places a mark on the cell idx
Places(idx) == ~(gameOver \/ cells[idx] # "")

\* accessible program: accessibleCell.Tapped on the cell idx: focus it, activate it
AccessibleTapped(idx) ==
    /\ program = "accessible"
    /\ gameOp' = GameOp("Tapped", idx, Places(idx))
    /\ focus' = idx
    /\ activate(idx)
    /\ UNCHANGED <<program, knobVars>>

\* a moveFocus without the row-edge checks
moveFocusWrapsRows(idx, delta) ==
    IF idx + delta < 0 \/ idx + delta > 8 THEN idx ELSE idx + delta

\* accessibleCell.moveFocus(delta) on the cell idx: the cell focused afterwards
moveFocus(idx, delta) ==
    LET newIdx == idx + delta
    IN  IF newIdx < 0 \/ newIdx > 8 THEN idx
        ELSE IF delta = -1 /\ idx % 3 = 0 THEN idx
        ELSE IF delta = 1 /\ idx % 3 = 2 THEN idx
        ELSE newIdx

\* the keys accessibleCell.TypedKey is called with; "Tab" stands for every key it
\* does not handle
GameKeys == {"Space", "Return", "Enter", "Up", "Down", "Left", "Right", "Home", "End", "Tab"}

\* the keys that move the focus
NavigationKeys == {"Up", "Down", "Left", "Right", "Home", "End"}

\* accessible program: accessibleCell.TypedKey(key), delivered to the focused cell
AccessibleTypedKey(key) ==
    /\ program = "accessible"
    /\ gameOp' = IF key \in {"Space", "Return", "Enter"}
                  THEN GameOp("TypedKey", focus, Places(focus))
                  ELSE GameOp("TypedKey", -1, FALSE)
    /\ IF key \in {"Space", "Return", "Enter"}
       THEN activate(focus) /\ UNCHANGED focus
       ELSE /\ focus' = CASE key = "Up" -> moveFocus(focus, -3)
                          [] key = "Down" -> moveFocus(focus, 3)
                          [] key = "Left" -> moveFocus(focus, -1)
                          [] key = "Right" -> moveFocus(focus, 1)
                          [] key = "Home" -> 0
                          [] key = "End" -> 8
                          [] OTHER -> focus
            /\ UNCHANGED <<board, currentTurn, gameOver, cells, highlighted, statusLabel>>
    /\ UNCHANGED <<program, knobVars>>

\* a reset that leaves the turn with the player whose turn it was
resetKeepsTurn ==
    /\ board' = EmptyBoard
    /\ gameOver' = FALSE
    /\ cells' = EmptyBoard
    /\ highlighted' = {}
    /\ statusLabel' = NewGameStatus
    /\ focus' = 4
    /\ UNCHANGED currentTurn

\* Game.resetGame
resetGame ==
    /\ board' = EmptyBoard
    /\ currentTurn' = "X"
    /\ gameOver' = FALSE
    /\ cells' = EmptyBoard
    /\ highlighted' = {}
    /\ statusLabel' = NewGameStatus
    /\ focus' = 4

\* the runes accessibleCell.TypedRune is called with
GameRunes == {"r", "R"}

\* accessible program: accessibleCell.TypedRune(r), delivered to the focused cell
AccessibleTypedRune(r) ==
    /\ program = "accessible"
    /\ gameOp' = GameOp(IF r \in {"r", "R"} THEN "TypedRune" ELSE "IgnoredRune", -1, FALSE)
    /\ IF r \in {"r", "R"}
       THEN resetGame
       ELSE UNCHANGED <<board, currentTurn, gameOver, cells, highlighted, statusLabel,
                        focus>>
    /\ UNCHANGED <<program, knobVars>>

\* accessible program: the callback of the "New Game (R)" button
AccessibleResetGame ==
    /\ program = "accessible"
    /\ gameOp' = GameOp("resetGame", -1, FALSE)
    /\ resetGame
    /\ UNCHANGED <<program, knobVars>>

GameInit == BasicInit \/ AccessibleInit

GameNext ==
    \/ \E idx \in Cells : BasicTapped(idx)
    \/ BasicResetGame
    \/ \E idx \in Cells : AccessibleTapped(idx)
    \/ \E key \in GameKeys : AccessibleTypedKey(key)
    \/ \E r \in GameRunes : AccessibleTypedRune(r)
    \/ AccessibleResetGame

GameSpec == GameInit /\ [][GameNext]_vars

\* the step is an activation of the cell gameOp'.idx: a tap, or Space, Return or Enter
Activation == gameOp'.kind \in {"Tapped", "TypedKey"} /\ gameOp'.idx \in Cells

\* C27: in both programs, activating an occupied cell, or any cell once the game is
\* over, leaves board, currentTurn and gameOver unchanged; the accessible program
\* additionally sets the status to "Cell already taken by <mark>. Choose another."
\* when the cell is occupied.
C27_RejectedMoveChangesNothing ==
    [][(Activation /\ (gameOver \/ board[gameOp'.idx] # "")) =>
          /\ UNCHANGED <<board, currentTurn, gameOver>>
          /\ (program = "accessible" /\ board[gameOp'.idx] # "") =>
                 statusLabel' = "Cell already taken by " \o board[gameOp'.idx]
                                  \o ". Choose another."]_vars

\* the accessible program rejected Space on a cell that O holds, after the game
\* had ended
C27_Witness ==
    /\ program = "accessible" /\ gameOver
    /\ gameOp.kind = "TypedKey" /\ gameOp.idx \in Cells /\ ~gameOp.placed
    /\ board[gameOp.idx] = "O"
    /\ statusLabel = TakenStatus("O")

\* how many cells of b hold mark
Marks(b, mark) == Cardinality({i \in Cells : b[i] = mark})

\* C28: X moves first after the start and after every reset; each accepted move
\* writes the current player's mark into exactly the chosen empty cell and, unless
\* the move ends the game, passes the turn to the other player; in every reachable
\* state the board holds as many X as O, or one X more.
C28_TurnOrder ==
    /\ [](gameOp.kind \in {"main", "resetGame", "TypedRune"} =>
              currentTurn = "X" /\ board = EmptyBoard)
    /\ [](Marks(board, "X") - Marks(board, "O") \in {0, 1})
    /\ [][(Activation /\ ~gameOver /\ board[gameOp'.idx] = "") =>
             /\ board' = [board EXCEPT ![gameOp'.idx] = currentTurn]
             /\ IF gameOver'
                THEN currentTurn' = currentTurn
                ELSE currentTurn' # currentTurn /\ currentTurn' \in {"X", "O"}]_vars

\* O has just moved without ending the game: it is X's turn again
C28_Witness ==
    /\ gameOp.kind = "Tapped" /\ gameOp.placed /\ ~gameOver
    /\ board[gameOp.idx] = "O"
    /\ currentTurn = "X"
    /\ Marks(board, "X") = 2 /\ Marks(board, "O") = 2

\* C29: a reset from any reachable state (the New Game button, or in the accessible
\* program the rune r or R typed on any cell) yields the initial state: every cell
\* empty, currentTurn X, gameOver false; in the accessible program also every
\* cell's value empty, the winning highlight cleared and the focus on cell 4.
C29_ResetRestoresInitialState ==
    gameOp.kind \in {"resetGame", "TypedRune"} =>
        /\ board = EmptyBoard
        /\ currentTurn = "X"
        /\ ~gameOver
        /\ cells = EmptyBoard
        /\ program = "accessible" => highlighted = {} /\ focus = 4

\* the rune r reset a game that had ended
C29_Witness == program = "accessible" /\ gameOp.kind = "TypedRune" /\ gameOp.over

\* the cell focused after a navigation key on the cell idx, as C30 states it
C30_Expected(idx, key) ==
    CASE key = "Up" -> IF idx - 3 >= 0 THEN idx - 3 ELSE idx
      [] key = "Down" -> IF idx + 3 <= 8 THEN idx + 3 ELSE idx
      [] key = "Left" -> IF idx \div 3 = (idx - 1) \div 3 /\ idx - 1 >= 0
                         THEN idx - 1 ELSE idx
      [] key = "Right" -> IF idx \div 3 = (idx + 1) \div 3 /\ idx + 1 <= 8
                          THEN idx + 1 ELSE idx
      [] key = "Home" -> 0
      [] key = "End" -> 8

\* C30: in the accessible program Up, Down, Left and Right move the focus to idx-3,
\* idx+3, idx-1 and idx+1 only when that index is inside the grid and, for Left and
\* Right, in the same row; otherwise the focus stays; Home focuses cell 0 and End
\* cell 8; the focused index is always in 0..8; navigation never changes board,
\* currentTurn or gameOver.
C30_FocusNavigation ==
    /\ [](program = "accessible" => focus \in Cells)
    /\ [][(gameOp'.kind = "TypedKey" /\ gameOp'.idx = -1) =>
             \A key \in NavigationKeys :
                 AccessibleTypedKey(key) =>
                     /\ focus' = C30_Expected(focus, key)
                     /\ UNCHANGED <<board, currentTurn, gameOver>>]_vars

\* a navigation key moved the focus to the top-left cell during a game
C30_Witness ==
    /\ gameOp.kind = "TypedKey" /\ gameOp.idx = -1
    /\ focus = 0
    /\ board # EmptyBoard

\* the Game Over announcement of the move that ended the game on the board b
GameOverStatus(b) ==
    IF checkWinner(b) # "" THEN WinStatus(checkWinner(b)) ELSE DrawStatus

\* C31: in the accessible program, in every reachable state in which gameOver is
\* true the status label shows the Game Over announcement (win or draw) of the
\* move that ended the game.
C31_GameOverAnnouncementStays ==
    (program = "accessible" /\ gameOver) => statusLabel = GameOverStatus(board)

\* C31, the part that holds: the move that ends the game sets the announcement,
\* and once the game is over every step other than the activation of an occupied
\* cell and a reset leaves the status label as it is.
C31_AnnouncementUntilOccupiedCell ==
    /\ [][(program = "accessible" /\ ~gameOver /\ gameOver') =>
             statusLabel' = GameOverStatus(board')]_vars
    /\ [][(program = "accessible" /\ gameOver /\ gameOver'
             /\ ~(Activation /\ board[gameOp'.idx] # "")) =>
             statusLabel' = statusLabel]_vars

\* the game had ended with a win of X and the status label shows the
\* announcement of that win
C31_Witness ==
    /\ program = "accessible" /\ gameOver
    /\ checkWinner(board) = "X"
    /\ statusLabel = WinStatus("X")
    /\ gameOp.kind = "TypedKey" /\ gameOp.idx \in Cells /\ ~gameOp.placed

-----------------------------------------------------------------------------
(* The data source and the knob's value *)

\* the operations C32 names: the knob's mutations and the source's Set
C32_Operations ==
    {"SetValue", "Dragged", "DragEnd", "Tapped", "TypedKey", "Scrolled", "DataSet"}

\* C32: for a non-wrapping knob bound to a data source, after every completed
\* knob mutation (SetValue, drag, tap, key, scroll) and every source Set, with
\* values outside [Min, Max] included, the data source holds the knob's Value.
C32_SourceEqualsValue ==
    (bound /\ ~Wrapping /\ lastOp.kind \in C32_Operations) => data = Value

\* C32, the part that holds: on a bound non-wrapping knob the data source holds
\* the knob's Value whenever the source's value lies in [Min, Max], and after
\* every operation that changed the knob's value.
C32_InRangeSourceEqualsValue ==
    (bound /\ ~Wrapping) =>
        /\ InRange(data) => data = Value
        /\ (lastOp.kind \in C32_Operations /\ Fired(calls, "OnChanged")) => data = Value

\* C32: what the source holds otherwise: a value outside [Min, Max] that was set
\* into it while the knob already stood at the bound nearest to it.
C32_SourceBeyondBound ==
    (bound /\ ~Wrapping /\ data # Value) =>
        \/ FGt(data, Max) /\ Value = Max
        \/ FLt(data, Min) /\ Value = Min

-----------------------------------------------------------------------------
(* The sweep of Layout and the sweep of updateValueFromAngle *)

\* Layout of the earlier variant: sweep := endAngle - startAngle, plus 360 when
\* negative; the angles are taken as the knob holds them
simpleLayoutSweep ==
    LET sweep == FSub(EndAngle, StartAngle)
    IN  IF FLt(sweep, R(0)) THEN FAdd(sweep, R(360)) ELSE sweep

\* EndAngle and StartAngle, as the knob holds them, are less than a turn apart
WithinOneTurn ==
    /\ FLt(FSub(EndAngle, StartAngle), R(360))
    /\ FGt(FSub(EndAngle, StartAngle), R(-360))

\* C33: for every StartAngle and EndAngle, the sweep that Layout uses to project
\* the value to an angle (EndAngle - StartAngle on the angles as given, plus 360
\* when not positive) equals the sweep that updateValueFromAngle uses to map an
\* angle to a value (the difference of the angles normalized into [0, 360), plus
\* 360 when negative).
C33_SweepsAgree == layoutSweep = sweepOf(StartAngle, EndAngle)

\* C33, the part that holds: the two sweeps are equal when EndAngle and StartAngle,
\* as given, differ and are less than a turn apart; the Layout of the earlier
\* variant, which adds 360 only to a negative difference, agrees with the mapper
\* also when they are equal.
C33_SweepsAgreeWithinOneTurn ==
    WithinOneTurn =>
        /\ StartAngle # EndAngle => layoutSweep = sweepOf(StartAngle, EndAngle)
        /\ simpleLayoutSweep = sweepOf(StartAngle, EndAngle)

\* C33: where the sweeps differ, they differ by a whole number of turns (the sweep
\* of Layout is 450 for the angles -360 and 90, and -90 for the angles 90 and -360)
C33_SweepsDifferByTurns == SameDirection(layoutSweep, sweepOf(StartAngle, EndAngle))

====
